---- MODULE Spec2Model ----
(***************************************************************************)
(* Model of the recyclarr-configurator core: the include resolver          *)
(* (core/data_manager.py), the score inference heuristic and the           *)
(* assignment model (ui/widgets/cf_editor.py) and the output compiler      *)
(* (core/yaml_generator.py).                                               *)
(*                                                                         *)
(* Python strings are modelled as sequences of one-character strings, so   *)
(* that lower(), replace(), split() and the `in` substring test are        *)
(* computed character by character.  Python dicts are modelled as          *)
(* sequences of entries in insertion order.                                *)
(***************************************************************************)
EXTENDS Integers, Sequences, FiniteSets, TLC

VARIABLES
    \* --- score inference (CFEditor._infer_score and its call site) ---
    trash_scores,       \* the item's score table, in insertion order
    profile_name,       \* the target (profile) name the score is inferred for
    a_score,            \* the inferred score, None before the call
    ipc,                \* "call" before the inference, "done" after
    \* --- include resolver (DataManager.resolve_template_includes) ---
    templates,          \* DataManager.templates of the application
    root_template,      \* the start template handed to the resolver
    collected_cfs,      \* the result list
    processed_names,    \* the visited set
    queue,              \* the FIFO queue of include names
    rpc,                \* "start", "loop" (inside the while) or "done"
    \* --- assignment model (CFEditor) and output compiler (YAMLGenerator) ---
    data,               \* CFEditor.data: the custom formats of the application
    profiles,           \* CFEditor.profiles: the available profile names
    active_assignments, \* CFEditor.active_assignments, in insertion order
    cf_list,            \* the entries load_assignments_from_template has read
    custom_formats_list,\* the "custom_formats" section of the generated config
    cpc,                \* "edit", "loading", "generated" or "regenerated"
    \* --- quality profiles (QualityProfileManager) and their rendering ---
    custom_profiles,    \* QualityProfileManager.profiles, in insertion order
    quality_profiles,   \* the "quality_profiles" section of the generated config
    \* --- catalog load (DataManager.load_data) ---
    custom_formats,     \* DataManager.custom_formats: the applications' formats
    cf_by_id,           \* DataManager.cf_by_id: the index by trash_id
    cf_file,            \* the file at custom_formats_path
    tpl_file,           \* the file at templates_path
    lpc,                \* "idle", "templates" (custom formats read) or "returned"
    load_result,        \* the value load_data returns, read when lpc = "returned"
    catalog_before,     \* auxiliary: the catalog as it was when load_data was called
    \* --- template selection (InstanceEditor.on_template_changed) ---
    spc,                \* position of the handler, "idle" between two events
    resolved_cfs,       \* the handler's local list of embedded entries
    templates_loaded,   \* auxiliary: DataManager.templates as load_data read it
    \* --- instances (MainWindow tabs) and the generated document ---
    tabs,               \* the InstanceEditor tabs, in tab order
    yaml_doc,           \* the dict generate_config builds, no dict outside the call
    \* --- sync worker (SyncWorker.run) ---
    wpc,                \* position inside run(), "idle" before start()
    emitted,            \* the signals emitted by the run, in order
    extractions,        \* the extractions started by the run, with their outcome
    handled             \* how many of the emitted signals the GUI thread has taken

inferVars == <<trash_scores, profile_name, a_score, ipc>>

resolveVars == <<templates, root_template, collected_cfs, processed_names,
                 queue, rpc>>

compileVars == <<data, profiles, active_assignments, cf_list,
                 custom_formats_list, cpc>>

profileVars == <<custom_profiles, quality_profiles>>

loadVars == <<custom_formats, cf_by_id, cf_file, tpl_file, lpc, load_result,
              catalog_before>>

selectVars == <<spc, resolved_cfs, templates_loaded>>

instanceVars == <<tabs, yaml_doc>>

workerVars == <<wpc, emitted, extractions, handled>>

idleVars == <<selectVars, instanceVars, workerVars>>

vars == <<inferVars, resolveVars, compileVars, profileVars, loadVars, idleVars>>

None == "None"

\* Python's None where a dict is expected
NoItem == [none |-> TRUE]

\* the state of a component that takes no part in a specification
InferIdle ==
    /\ trash_scores = <<>>
    /\ profile_name = <<>>
    /\ a_score = None
    /\ ipc = "idle"

ResolveIdle ==
    /\ templates = [templates |-> <<>>, includes |-> <<>>]
    /\ root_template = NoItem
    /\ collected_cfs = <<>>
    /\ processed_names = {}
    /\ queue = <<>>
    /\ rpc = "idle"

CompileIdle ==
    /\ data = <<>>
    /\ profiles = <<>>
    /\ active_assignments = <<>>
    /\ cf_list = <<>>
    /\ custom_formats_list = <<>>
    /\ cpc = "idle"
    /\ custom_profiles = <<>>
    /\ quality_profiles = <<>>

\* no snapshot: load_data is not running
NoSnapshot == <<>>

\* a file that does not exist
MissingFile == [kind |-> "missing"]

LoadIdle ==
    /\ custom_formats = <<>>
    /\ cf_by_id = <<>>
    /\ cf_file = MissingFile
    /\ tpl_file = MissingFile
    /\ lpc = "idle"
    /\ load_result = FALSE
    /\ catalog_before = NoSnapshot

SelectIdle ==
    /\ spc = "idle"
    /\ resolved_cfs = <<>>
    /\ templates_loaded = <<>>

InstancesIdle ==
    /\ tabs = <<>>
    /\ yaml_doc = NoItem

WorkerIdle ==
    /\ wpc = "idle"
    /\ emitted = <<>>
    /\ extractions = <<>>
    /\ handled = 0

-----------------------------------------------------------------------------
(* Bounds *)

MaxKeys == 3            \* entries of a score table
MaxRefs == 3            \* include references in a whole catalog
MaxEntries == 2         \* entries of a list given to load_assignments_from_template
MaxAssign == 2          \* targets in the assign_scores_to list of an entry
MaxProfiles == 2        \* quality profiles of an instance
MaxInstances == 3       \* instance tabs of the window
MaxIds == 3             \* ids in the id list of an embedded entry, which a load may extend

-----------------------------------------------------------------------------
(* Strings *)

UpperToLower ==
    ("A" :> "a") @@ ("B" :> "b") @@ ("C" :> "c") @@ ("D" :> "d") @@
    ("E" :> "e") @@ ("F" :> "f") @@ ("G" :> "g") @@ ("H" :> "h") @@
    ("I" :> "i") @@ ("J" :> "j") @@ ("K" :> "k") @@ ("L" :> "l") @@
    ("M" :> "m") @@ ("N" :> "n") @@ ("O" :> "o") @@ ("P" :> "p") @@
    ("Q" :> "q") @@ ("R" :> "r") @@ ("S" :> "s") @@ ("T" :> "t") @@
    ("U" :> "u") @@ ("V" :> "v") @@ ("W" :> "w") @@ ("X" :> "x") @@
    ("Y" :> "y") @@ ("Z" :> "z")

\* str.lower()
Lower(s) ==
    [i \in 1..Len(s) |-> IF s[i] \in DOMAIN UpperToLower
                         THEN UpperToLower[s[i]] ELSE s[i]]

\* str.replace(old, new) for a single character old
ReplaceChar(s, old, new) ==
    [i \in 1..Len(s) |-> IF s[i] = old THEN new ELSE s[i]]

\* sub occurs in s at position i
OccursAt(sub, s, i) ==
    /\ i + Len(sub) - 1 <= Len(s)
    /\ SubSeq(s, i, i + Len(sub) - 1) = sub

\* the Python test `sub in s` on strings
Contains(sub, s) == \E i \in 1..(Len(s) + 1) : OccursAt(sub, s, i)

\* str.replace(old, new): leftmost non-overlapping occurrences, old non-empty
RECURSIVE ReplaceSub(_, _, _)
ReplaceSub(s, old, new) ==
    IF s = <<>> THEN <<>>
    ELSE IF OccursAt(old, s, 1)
         THEN new \o ReplaceSub(SubSeq(s, Len(old) + 1, Len(s)), old, new)
         ELSE <<Head(s)>> \o ReplaceSub(Tail(s), old, new)

\* str.split(sep) for a single character sep: "a--b" gives "a", "", "b"
RECURSIVE Split(_, _)
Split(s, sep) ==
    IF \A i \in 1..Len(s) : s[i] # sep THEN <<s>>
    ELSE LET i == CHOOSE j \in 1..Len(s) :
                      /\ s[j] = sep
                      /\ \A k \in 1..(j - 1) : s[k] # sep
         IN  <<SubSeq(s, 1, i - 1)>> \o Split(SubSeq(s, i + 1, Len(s)), sep)

\* the elements of a sequence
Range(s) == {s[i] : i \in 1..Len(s)}

\* [x for x in s if Keep(x)]
RECURSIVE FilterOut(_, _)
FilterOut(s, drop) ==
    IF s = <<>> THEN <<>>
    ELSE IF Head(s) \in drop THEN FilterOut(Tail(s), drop)
         ELSE <<Head(s)>> \o FilterOut(Tail(s), drop)

-----------------------------------------------------------------------------
(* String literals of the heuristic *)

StrDefault == <<"d", "e", "f", "a", "u", "l", "t">>
StrFrench  == <<"f", "r", "e", "n", "c", "h">>
StrFr      == <<"f", "r">>
StrHq      == <<"h", "q">>
StrHd      == <<"h", "d">>
StrVostfr  == <<"v", "o", "s", "t", "f", "r">>
StrVf      == <<"v", "f">>
StrVo      == <<"v", "o">>

GenericTokens  == {StrHq, StrHd}
SpecialAliases == {StrVostfr, StrVf, StrVo}

-----------------------------------------------------------------------------
(* Score inference: CFEditor._infer_score *)

\* p_norm = profile_name.lower().replace(" ", "-").replace("_", "-")
NormalizeProfileName(name) ==
    ReplaceChar(ReplaceChar(Lower(name), " ", "-"), "_", "-")

\* k_norm = key.lower()
KNorm(key) == Lower(key)

\* k_alias = k_norm.replace("french", "fr")
KAlias(key) == ReplaceSub(KNorm(key), StrFrench, StrFr)

\* 1. exact containment, with or without alias
RuleContainment(key, p_norm) ==
    Contains(KNorm(key), p_norm) \/ Contains(KAlias(key), p_norm)

\* tokens = [t for t in k_alias.split('-') if t not in ['hq', 'hd']]
Tokens(key) == FilterOut(Split(KAlias(key), "-"), GenericTokens)

\* token overlap without the `tokens and` guard: all([]) is True
RuleTokensAllowEmpty(key, p_norm) ==
    \A i \in 1..Len(Tokens(key)) : Contains(Tokens(key)[i], p_norm)

\* 2. token overlap
RuleTokens(key, p_norm) ==
    /\ Tokens(key) # <<>>
    /\ \A i \in 1..Len(Tokens(key)) : Contains(Tokens(key)[i], p_norm)

\* the fallback without its token test: a special alias matches any target
RuleSpecialAnyTarget(key, p_norm) ==
    KAlias(key) \in SpecialAliases

\* 3. special case fallback
RuleSpecial(key, p_norm) ==
    /\ KAlias(key) \in SpecialAliases
    /\ KAlias(key) \in Range(Split(p_norm, "-"))

\* the three `return sc` conditions of one loop iteration
KeyMatches(key, p_norm) ==
    \/ RuleContainment(key, p_norm)
    \/ RuleTokens(key, p_norm)
    \/ RuleSpecial(key, p_norm)

\* the loop with `best_match_score = sc` in place of `return sc`: last match
RECURSIVE ScanKeysLastWins(_, _, _, _)
ScanKeysLastWins(table, i, p_norm, best_match_score) ==
    IF i > Len(table) THEN best_match_score
    ELSE IF table[i].key = StrDefault
         THEN ScanKeysLastWins(table, i + 1, p_norm, best_match_score)
         ELSE IF KeyMatches(table[i].key, p_norm)
              THEN ScanKeysLastWins(table, i + 1, p_norm, table[i].sc)
              ELSE ScanKeysLastWins(table, i + 1, p_norm, best_match_score)

\* the loop without `if key == 'default': continue`
RECURSIVE ScanKeysMatchDefault(_, _, _, _)
ScanKeysMatchDefault(table, i, p_norm, best_match_score) ==
    IF i > Len(table) THEN best_match_score
    ELSE IF KeyMatches(table[i].key, p_norm)
         THEN table[i].sc
         ELSE ScanKeysMatchDefault(table, i + 1, p_norm, best_match_score)

\* the loop `for key, sc in trash_scores.items()` from entry i on
RECURSIVE ScanKeys(_, _, _, _)
ScanKeys(table, i, p_norm, best_match_score) ==
    IF i > Len(table) THEN best_match_score
    ELSE IF table[i].key = StrDefault
         THEN ScanKeys(table, i + 1, p_norm, best_match_score)
         ELSE IF KeyMatches(table[i].key, p_norm)
              THEN table[i].sc
              ELSE ScanKeys(table, i + 1, p_norm, best_match_score)

InferScore(table, name, default_score) ==
    IF table = <<>> THEN default_score
    ELSE ScanKeys(table, 1, NormalizeProfileName(name), default_score)

\* default_score = trash_scores.get('default', 0)
DefaultScore(table) ==
    IF \E i \in 1..Len(table) : table[i].key = StrDefault
    THEN LET i == CHOOSE j \in 1..Len(table) : table[j].key = StrDefault
         IN  table[i].sc
    ELSE 0

\* the call site: default score, then the heuristic
Infer(table, name) == InferScore(table, name, DefaultScore(table))

-----------------------------------------------------------------------------
(* Inputs of the score inference *)

KeyPool ==
    { StrDefault,
      <<"f", "r", "e", "n", "c", "h", "-", "v", "o", "s", "t", "f", "r">>,
      <<"h", "q", "-", "f", "r", "-", "w", "e", "b">>,
      <<"f", "r", "_", "w", "e", "b">>,
      <<"F", "R", "-", "W", "E", "B">>,
      <<"h", "q", "-", "h", "d">>,
      StrVostfr,
      StrVf,
      StrVo }

TargetPool ==
    { <<"f", "r", "-", "w", "e", "b", "-", "1", "0", "8", "0", "p">>,
      <<"F", "R", "-", "V", "O", "S", "T", "F", "R", "-", "W", "E", "B">>,
      <<"F", "R", "_", "W", "e", "b", " ", "H", "D">>,
      <<"b", "l", "u", "r", "a", "y">>,
      <<"V", "F", "-", "H", "D">>,
      <<"D", "e", "f", "a", "u", "l", "t", "-", "v", "f">> }

\* one base: the scores of a table are pairwise distinct, of both signs, never 0
ScoreBases == {-25}

\* score tables: distinct keys (a dict), pairwise distinct scores
ScoreTables ==
    UNION { { [i \in 1..n |-> [key |-> ks[i], sc |-> base + 10 * i]] :
                ks \in { f \in [1..n -> KeyPool] :
                           \A i, j \in 1..n : i # j => f[i] # f[j] },
                base \in ScoreBases }
            : n \in 0..MaxKeys }

InitInfer ==
    /\ SelectIdle
    /\ InstancesIdle
    /\ WorkerIdle
    /\ ResolveIdle
    /\ CompileIdle
    /\ LoadIdle
    /\ trash_scores \in ScoreTables
    /\ profile_name \in TargetPool
    /\ a_score = None
    /\ ipc = "call"

\* cf_editor.py:302-315: default_score is read from the table, then the
\* score for the target is inferred
InferCall ==
    /\ ipc = "call"
    /\ a_score' = Infer(trash_scores, profile_name)
    /\ ipc' = "done"
    /\ UNCHANGED <<trash_scores, profile_name>>

NextInfer == InferCall /\ UNCHANGED <<resolveVars, compileVars, profileVars, loadVars, idleVars>>

SpecInfer == InitInfer /\ [][NextInfer]_vars

-----------------------------------------------------------------------------
(* Catalog of templates and includes *)

\* the three storage shapes of an entry of templates.json: fields at the top
\* level, fields inside `content`, fields inside content[app][instance]
Direct(n, cfs, inc) == [name |-> n, custom_formats |-> cfs, include |-> inc]

Wrapped(n, cfs, inc) ==
    [name |-> n, content |-> [custom_formats |-> cfs, include |-> inc]]

Nested(n, cfs, inc) ==
    [name |-> n,
     content |-> [radarr |-> [main |-> [custom_formats |-> cfs, include |-> inc]]]]

Shapes == {"direct", "content", "nested"}

MakeEntry(shape, n, cfs, inc) ==
    CASE shape = "direct"  -> Direct(n, cfs, inc)
      [] shape = "content" -> Wrapped(n, cfs, inc)
      [] shape = "nested"  -> Nested(n, cfs, inc)

\* an embedded custom-format entry of a template
Cf(id) == [trash_ids |-> <<id>>]

\* dict.get(key, default)
Get(d, k, default) == IF k \in DOMAIN d THEN d[k] ELSE default

\* DataManager.get_templates_for_app
GetTemplatesForApp(t) == t.templates

\* DataManager.get_app_includes: the include categories, in dict order
GetAppIncludes(t) == t.includes

\* the items of all include categories, in iteration order
RECURSIVE FlattenIncludes(_)
FlattenIncludes(cats) ==
    IF cats = <<>> THEN <<>>
    ELSE Head(cats).items \o FlattenIncludes(Tail(cats))

\* the first entry of a list with the given name, None without one
FirstNamed(entries, n) ==
    IF \E i \in 1..Len(entries) : entries[i].name = n
    THEN entries[CHOOSE i \in 1..Len(entries) :
                    /\ entries[i].name = n
                    /\ \A j \in 1..(i - 1) : entries[j].name # n]
    ELSE NoItem

\* DataManager.get_any_template_or_include: templates first, then includes
GetAnyTemplateOrInclude(t, n) ==
    IF FirstNamed(GetTemplatesForApp(t), n) # NoItem
    THEN FirstNamed(GetTemplatesForApp(t), n)
    ELSE FirstNamed(FlattenIncludes(GetAppIncludes(t)), n)

-----------------------------------------------------------------------------
(* Include resolver: DataManager.resolve_template_includes *)

\* [inc.get("template") for inc in incs if inc.get("template")]
RECURSIVE TemplateNames(_)
TemplateNames(incs) ==
    IF incs = <<>> THEN <<>>
    ELSE IF Get(Head(incs), "template", None) # None
         THEN <<Head(incs).template>> \o TemplateNames(Tail(incs))
         ELSE TemplateNames(Tail(incs))

\* lines 116-125: the root's own items, the visited set, the queue
ResolveStart ==
    /\ rpc = "start"
    /\ collected_cfs' = IF "custom_formats" \in DOMAIN root_template
                        THEN root_template.custom_formats ELSE <<>>
    /\ processed_names' = {Get(root_template, "name", None)}
    /\ queue' = TemplateNames(Get(root_template, "include", <<>>))
    /\ rpc' = "loop"
    /\ UNCHANGED <<templates, root_template>>

\* one iteration of `while queue:` that forgets to remove the name it reads
ResolveStepNoPop ==
    /\ rpc = "loop"
    /\ queue # <<>>
    /\ LET next_name == Head(queue)
           item      == GetAnyTemplateOrInclude(templates, next_name)
           data_node == Get(item, "content", item)
       IN  IF next_name \in processed_names
           THEN UNCHANGED <<queue, processed_names, collected_cfs>>
           ELSE /\ processed_names' = processed_names \cup {next_name}
                /\ IF item = NoItem
                   THEN UNCHANGED <<queue, collected_cfs>>
                   ELSE /\ collected_cfs' =
                              IF "custom_formats" \in DOMAIN item
                              THEN collected_cfs \o item.custom_formats
                              ELSE collected_cfs
                        /\ queue' =
                              IF "include" \in DOMAIN data_node
                              THEN queue \o TemplateNames(data_node.include)
                              ELSE queue
    /\ UNCHANGED <<templates, root_template, rpc>>

\* lines 127-155: one iteration of `while queue:`
ResolveStep ==
    /\ rpc = "loop"
    /\ queue # <<>>
    /\ LET next_name == Head(queue)
           item      == GetAnyTemplateOrInclude(templates, next_name)
           data_node == Get(item, "content", item)
       IN  IF next_name \in processed_names
           THEN /\ queue' = Tail(queue)
                /\ UNCHANGED <<processed_names, collected_cfs>>
           ELSE /\ processed_names' = processed_names \cup {next_name}
                /\ IF item = NoItem
                   THEN /\ queue' = Tail(queue)
                        /\ UNCHANGED collected_cfs
                   ELSE /\ collected_cfs' =
                              IF "custom_formats" \in DOMAIN item
                              THEN collected_cfs \o item.custom_formats
                              ELSE collected_cfs
                        /\ queue' =
                              IF "include" \in DOMAIN data_node
                              THEN Tail(queue) \o TemplateNames(data_node.include)
                              ELSE Tail(queue)
    /\ UNCHANGED <<templates, root_template, rpc>>

\* line 157: the loop ends on an empty queue and the list is returned
ResolveReturn ==
    /\ rpc = "loop"
    /\ queue = <<>>
    /\ rpc' = "done"
    /\ UNCHANGED <<templates, root_template, collected_cfs, processed_names,
                   queue>>

-----------------------------------------------------------------------------
(* Inputs of the include resolver *)

\* the names an include reference may carry; "C" may be missing from the
\* catalog, and is then an unresolvable name
RefNames == {"A", "B", "C"}

\* include lists of at most n references
IncludeLists(n) ==
    UNION { [1..k -> {[template |-> r] : r \in RefNames}] : k \in 0..n }

ItemsA   == <<Cf("a1"), Cf("a2")>>
ItemsB   == <<Cf("b1")>>
ItemsC   == <<Cf("c1"), Cf("c2")>>
ItemsBx  == <<Cf("bx")>>

\* an include that shares its name with the template "B"
ShadowB == Direct("B", ItemsBx, <<>>)

\* catalogs: templates "A" and "B"; the include categories hold an optional
\* second "B" and an optional "C"; at most MaxRefs references in all
InitResolve ==
    /\ SelectIdle
    /\ InstancesIdle
    /\ WorkerIdle
    /\ InferIdle
    /\ CompileIdle
    /\ LoadIdle
    /\ \E sa \in Shapes, sb \in Shapes, shadow \in {<<>>, <<ShadowB>>} :
       \E ia \in IncludeLists(MaxRefs) :
       \E ib \in IncludeLists(MaxRefs - Len(ia)) :
       \E cs \in {<<>>} \cup { <<MakeEntry(sc, "C", ItemsC, ic)>> :
                     sc \in Shapes,
                     ic \in IncludeLists(MaxRefs - Len(ia) - Len(ib)) } :
          templates =
             [templates |-> <<MakeEntry(sa, "A", ItemsA, ia),
                              MakeEntry(sb, "B", ItemsB, ib)>>,
              includes  |-> <<[type |-> "quality-profiles", items |-> shadow],
                              [type |-> "custom-formats",   items |-> cs]>>]
    /\ root_template \in Range(GetTemplatesForApp(templates))
    /\ collected_cfs = <<>>
    /\ processed_names = {}
    /\ queue = <<>>
    /\ rpc = "start"

NextResolve ==
    \/ ResolveStart  /\ UNCHANGED <<inferVars, compileVars, profileVars, loadVars, idleVars>>
    \/ ResolveStep   /\ UNCHANGED <<inferVars, compileVars, profileVars, loadVars, idleVars>>
    \/ ResolveReturn /\ UNCHANGED <<inferVars, compileVars, profileVars, loadVars, idleVars>>

SpecResolve == InitResolve /\ [][NextResolve]_vars

\* the loop is sequential code: an enabled step is eventually taken
SpecResolveFair == SpecResolve /\ WF_vars(NextResolve)

-----------------------------------------------------------------------------
(* Ordered dicts and sorting *)

\* the characters of the model in code-point order
CodePoints ==
    <<" ", "-", "0", "1", "2", "3", "4", "5", "6", "7", "8", "9",
      "A", "B", "C", "D", "E", "F", "G", "H", "I", "J", "K", "L", "M",
      "N", "O", "P", "Q", "R", "S", "T", "U", "V", "W", "X", "Y", "Z", "_",
      "a", "b", "c", "d", "e", "f", "g", "h", "i", "j", "k", "l", "m",
      "n", "o", "p", "q", "r", "s", "t", "u", "v", "w", "x", "y", "z">>

Ord(c) == CHOOSE i \in 1..Len(CodePoints) : CodePoints[i] = c

\* s < t on strings
RECURSIVE StrLess(_, _)
StrLess(s, t) ==
    IF t = <<>> THEN FALSE
    ELSE IF s = <<>> THEN TRUE
    ELSE IF Head(s) = Head(t) THEN StrLess(Tail(s), Tail(t))
    ELSE Ord(Head(s)) < Ord(Head(t))

\* x inserted into the sorted list s, after the elements equal to it
RECURSIVE InsertSorted(_, _)
InsertSorted(x, s) ==
    IF s = <<>> THEN <<x>>
    ELSE IF StrLess(x, Head(s)) THEN <<x>> \o s
    ELSE <<Head(s)>> \o InsertSorted(x, Tail(s))

\* sorted(names)
RECURSIVE Sorted(_)
Sorted(names) ==
    IF names = <<>> THEN <<>>
    ELSE InsertSorted(names[Len(names)], Sorted(SubSeq(names, 1, Len(names) - 1)))

\* the position of trash_id tid in the dict d, 0 when it is not a key
KeyIndex(d, tid) ==
    IF \E i \in 1..Len(d) : d[i].trash_id = tid
    THEN CHOOSE i \in 1..Len(d) : d[i].trash_id = tid
    ELSE 0

\* a store that keeps the value an existing key already has
DictSetKeepFirst(d, tid, v) ==
    IF KeyIndex(d, tid) = 0 THEN Append(d, v) ELSE d

\* d[tid] = v: an existing key keeps its place, a new key goes last
DictSet(d, tid, v) ==
    IF KeyIndex(d, tid) = 0 THEN Append(d, v)
    ELSE [d EXCEPT ![KeyIndex(d, tid)] = v]

\* del d[tid]
DictDel(d, tid) ==
    LET k == KeyIndex(d, tid)
    IN  SubSeq(d, 1, k - 1) \o SubSeq(d, k + 1, Len(d))

-----------------------------------------------------------------------------
(* Assignment model: CFEditor *)

\* next((x for x in self.data if x.get('trash_id') == tid), None)
CfData(tid) ==
    IF \E i \in 1..Len(data) : data[i].trash_id = tid
    THEN data[CHOOSE i \in 1..Len(data) :
                 /\ data[i].trash_id = tid
                 /\ \A j \in 1..(i - 1) : data[j].trash_id # tid]
    ELSE NoItem

\* [x["name"] for x in profile_scores]
NamesOf(profile_scores) ==
    [i \in 1..Len(profile_scores) |-> profile_scores[i].name]

\* CustomFormatAssignment(...) as both handlers build it
MakeAssignment(cf_data, profile_scores) ==
    LET default_score == DefaultScore(cf_data.trash_scores)
    IN  [trash_id       |-> cf_data.trash_id,
         name           |-> cf_data.name,
         description    |-> cf_data.description,
         score          |-> IF profile_scores # <<>>
                            THEN profile_scores[1].score ELSE default_score,
         default_score  |-> default_score,
         profiles       |-> NamesOf(profile_scores),
         profile_scores |-> profile_scores]

\* the checked rows of the profile table, as {"name", "score"} entries
RECURSIVE CheckedRows(_, _)
CheckedRows(names, rows) ==
    IF names = <<>> THEN <<>>
    ELSE IF Head(rows).checked
         THEN <<[name |-> Head(names), score |-> Head(rows).value]>>
                  \o CheckedRows(Tail(names), Tail(rows))
         ELSE CheckedRows(Tail(names), Tail(rows))

\* an update that adds the checked rows to the pairs the item already has
UpdateModelMerge(tid, rows) ==
    /\ cpc = "edit"
    /\ CfData(tid) # NoItem
    /\ LET checked        == CheckedRows(profiles, rows)
           previous       == IF KeyIndex(active_assignments, tid) # 0
                             THEN active_assignments[KeyIndex(active_assignments, tid)].profile_scores
                             ELSE <<>>
           profile_scores == previous \o checked
       IN  active_assignments' =
              IF checked = <<>>
              THEN IF KeyIndex(active_assignments, tid) # 0
                   THEN DictDel(active_assignments, tid)
                   ELSE active_assignments
              ELSE DictSet(active_assignments, tid,
                           MakeAssignment(CfData(tid), profile_scores))
    /\ UNCHANGED <<data, profiles, cf_list, custom_formats_list, cpc>>
    /\ UNCHANGED profileVars

\* CFEditor.update_model for the selected item tid; rows is the state of the
\* profile table (one row per available profile: checkbox and spin box)
UpdateModel(tid, rows) ==
    /\ cpc = "edit"
    /\ CfData(tid) # NoItem
    /\ LET profile_scores == CheckedRows(profiles, rows)
       IN  active_assignments' =
              IF profile_scores = <<>>
              THEN IF KeyIndex(active_assignments, tid) # 0
                   THEN DictDel(active_assignments, tid)
                   ELSE active_assignments
              ELSE DictSet(active_assignments, tid,
                           MakeAssignment(CfData(tid), profile_scores))
    /\ UNCHANGED <<data, profiles, cf_list, custom_formats_list, cpc>>
    /\ UNCHANGED profileVars

\* CFEditor.set_available_profiles
SetAvailableProfiles(p) ==
    /\ cpc = "edit"
    /\ profiles' = p
    /\ UNCHANGED <<data, active_assignments, cf_list, custom_formats_list, cpc>>
    /\ UNCHANGED profileVars

\* the same loop with `if not a_score` for `if a_score is None`
RECURSIVE ProfileScoresForFalsy(_, _)
ProfileScoresForFalsy(cf_data, assignments) ==
    IF assignments = <<>> THEN <<>>
    ELSE LET assign == Head(assignments)
             score  == IF "score" \notin DOMAIN assign \/ assign.score = 0
                       THEN InferScore(cf_data.trash_scores, assign.name,
                                       DefaultScore(cf_data.trash_scores))
                       ELSE assign.score
         IN  <<[name |-> assign.name, score |-> score]>>
                 \o ProfileScoresForFalsy(cf_data, Tail(assignments))

\* lines 309-317: the profile_scores of one custom format for one entry
RECURSIVE ProfileScoresFor(_, _)
ProfileScoresFor(cf_data, assignments) ==
    IF assignments = <<>> THEN <<>>
    ELSE LET assign == Head(assignments)
             score  == IF "score" \notin DOMAIN assign
                       THEN InferScore(cf_data.trash_scores, assign.name,
                                       DefaultScore(cf_data.trash_scores))
                       ELSE assign.score
         IN  <<[name |-> assign.name, score |-> score]>>
                 \o ProfileScoresFor(cf_data, Tail(assignments))

\* lines 297-338: the loop over the trash_ids of one entry
RECURSIVE LoadIds(_, _, _)
LoadIds(assigned, trash_ids, entry) ==
    IF trash_ids = <<>> THEN assigned
    ELSE LET tid     == Head(trash_ids)
             cf_data == CfData(tid)
         IN  IF cf_data = NoItem
             THEN LoadIds(assigned, Tail(trash_ids), entry)
             ELSE LoadIds(DictSet(assigned, tid,
                              MakeAssignment(cf_data,
                                  ProfileScoresFor(cf_data,
                                      Get(entry, "assign_scores_to", <<>>)))),
                          Tail(trash_ids), entry)

\* a start of the handler that keeps what the model holds
LoadBeginKeep ==
    /\ cpc = "edit"
    /\ cf_list' = <<>>
    /\ cpc' = "loading"
    /\ UNCHANGED <<data, profiles, active_assignments, custom_formats_list>>
    /\ UNCHANGED profileVars

\* line 277: load_assignments_from_template starts by clearing the model
LoadBegin ==
    /\ cpc = "edit"
    /\ active_assignments' = <<>>
    /\ cf_list' = <<>>
    /\ cpc' = "loading"
    /\ UNCHANGED <<data, profiles, custom_formats_list>>
    /\ UNCHANGED profileVars

\* lines 284-287: the names of an entry as a list; a single string is wrapped
NamesList(entry) ==
    IF "names" \notin DOMAIN entry THEN <<>>
    ELSE IF "str" \in DOMAIN entry.names THEN <<entry.names.str>>
    ELSE entry.names.list

\* next((x for x in self.data if x.get('name') == name), None)
CfDataByName(name) ==
    IF \E i \in 1..Len(data) : data[i].name = name
    THEN data[CHOOSE i \in 1..Len(data) :
                 /\ data[i].name = name
                 /\ \A j \in 1..(i - 1) : data[j].name # name]
    ELSE NoItem

\* lines 288-291: the ids of the names that are found, in order
RECURSIVE FoundIds(_)
FoundIds(names) ==
    IF names = <<>> THEN <<>>
    ELSE LET found == CfDataByName(Head(names))
         IN  IF found = NoItem THEN FoundIds(Tail(names))
             ELSE <<found.trash_id>> \o FoundIds(Tail(names))

\* lines 280-291: the trash_ids the loop of the entry runs over
EntryIds(entry) == Get(entry, "trash_ids", <<>>) \o FoundIds(NamesList(entry))

\* the entry as the caller sees it afterwards: trash_ids.append works on the
\* entry's own list when it has one, on a fresh list otherwise
EntryAfter(entry) ==
    IF "trash_ids" \in DOMAIN entry
    THEN [entry EXCEPT !.trash_ids = EntryIds(entry)]
    ELSE entry

\* lines 279-338: one iteration of `for entry in cf_list`; cf_list keeps the
\* entries read so far, as they are after the iteration
LoadEntry(entry) ==
    /\ cpc = "loading"
    /\ Len(cf_list) < MaxEntries
    /\ cf_list' = Append(cf_list, EntryAfter(entry))
    /\ active_assignments' = LoadIds(active_assignments, EntryIds(entry), entry)
    /\ UNCHANGED <<data, profiles, custom_formats_list, cpc>>
    /\ UNCHANGED profileVars

\* the loop is over and the handler returns
LoadReturn ==
    /\ cpc = "loading"
    /\ cf_list' = <<>>
    /\ cpc' = "edit"
    /\ UNCHANGED <<data, profiles, active_assignments, custom_formats_list>>
    /\ UNCHANGED profileVars

-----------------------------------------------------------------------------
(* Output compiler: YAMLGenerator._generate_instance_config *)

\* the position of a key in the groups dict, 0 when it is new
GroupIndex(groups, key) ==
    IF \E i \in 1..Len(groups) : groups[i].key = key
    THEN CHOOSE i \in 1..Len(groups) : groups[i].key = key
    ELSE 0

\* a grouping loop that puts a new group before the groups it already has
RECURSIVE GroupNewestFirst(_, _)
GroupNewestFirst(groups, active_cfs) ==
    IF active_cfs = <<>> THEN groups
    ELSE LET cf  == Head(active_cfs)
             key == <<cf.score, Sorted(cf.profiles)>>
             k   == GroupIndex(groups, key)
         IN  GroupNewestFirst(
                 IF k = 0
                 THEN <<[key |-> key, trash_ids |-> <<cf.trash_id>>]>> \o groups
                 ELSE [groups EXCEPT ![k].trash_ids = Append(@, cf.trash_id)],
                 Tail(active_cfs))

\* a grouping loop that stores the id as the group's list instead of
\* appending it
RECURSIVE GroupOverwriting(_, _)
GroupOverwriting(groups, active_cfs) ==
    IF active_cfs = <<>> THEN groups
    ELSE LET cf  == Head(active_cfs)
             key == <<cf.score, Sorted(cf.profiles)>>
             k   == GroupIndex(groups, key)
         IN  GroupOverwriting(
                 IF k = 0
                 THEN Append(groups, [key |-> key, trash_ids |-> <<cf.trash_id>>])
                 ELSE [groups EXCEPT ![k].trash_ids = <<cf.trash_id>>],
                 Tail(active_cfs))

\* lines 89-95: the grouping loop; the key is the legacy score and the sorted
\* profile names of the Assignment
RECURSIVE GroupBySignature(_, _)
GroupBySignature(groups, active_cfs) ==
    IF active_cfs = <<>> THEN groups
    ELSE LET cf  == Head(active_cfs)
             key == <<cf.score, Sorted(cf.profiles)>>
             k   == GroupIndex(groups, key)
         IN  GroupBySignature(
                 IF k = 0
                 THEN Append(groups, [key |-> key, trash_ids |-> <<cf.trash_id>>])
                 ELSE [groups EXCEPT ![k].trash_ids = Append(@, cf.trash_id)],
                 Tail(active_cfs))

\* lines 98-122: one output entry per group
GroupEntry(group) ==
    LET score == group.key[1]
        profs == group.key[2]
    IN  IF profs # <<>>
        THEN [trash_ids |-> group.trash_ids,
              assign_scores_to |->
                  [i \in 1..Len(profs) |-> [name |-> profs[i], score |-> score]]]
        ELSE [trash_ids |-> group.trash_ids]

\* a YAML string node; the qualities list of a rendered profile mixes string
\* nodes and mappings
Scalar(text) == [scalar |-> text]

\* QualityProfileItem(name, qualities)
QualityProfileItem(name, qualities) == [name |-> name, qualities |-> qualities]

\* QualityProfile(name=...) with the defaults of the dataclass
QualityProfile(name, source) ==
    [name                   |-> name,
     upgrade_allowed        |-> FALSE,
     upgrade_until          |-> "",
     until_score            |-> 10000,
     min_format_score       |-> 0,
     score_set              |-> "",
     quality_sort           |-> "top",
     reset_unmatched_scores |-> TRUE,
     items                  |-> <<>>,
     source                 |-> source,
     active                 |-> FALSE]

\* a renderer that writes a leaf as a mapping {name}
RenderItemAsMapping(item) ==
    IF item.qualities # <<>>
    THEN [name |-> item.name, qualities |-> item.qualities]
    ELSE [name |-> item.name]

\* lines 147-156: a group renders as {name, qualities}, a leaf as its name
RenderItem(item) ==
    IF item.qualities # <<>>
    THEN [name |-> item.name, qualities |-> item.qualities]
    ELSE Scalar(item.name)

\* lines 130-183: the block of one profile
RenderProfile(qp) ==
    [name                   |-> qp.name,
     reset_unmatched_scores |-> [enabled |-> TRUE],
     upgrade                |-> [allowed       |-> qp.upgrade_allowed,
                                 until_quality |-> qp.upgrade_until,
                                 until_score   |-> 10000],
     min_format_score       |-> qp.min_format_score,
     quality_sort           |-> "top",
     score_set              |-> qp.score_set,
     qualities              |-> [i \in 1..Len(qp.items) |-> RenderItem(qp.items[i])]]

\* lines 84-124: the custom_formats section of active_cfs
RenderCustomFormats(active_cfs) ==
    LET groups == GroupBySignature(<<>>, active_cfs)
    IN  [i \in 1..Len(groups) |-> GroupEntry(groups[i])]

\* lines 127-185: the quality_profiles section, one block per profile
RenderQualityProfiles(profs) ==
    [i \in 1..Len(profs) |-> RenderProfile(profs[i])]

\* a generator whose result lists are kept from one call to the next
GenerateAccumulating ==
    /\ cpc \in {"edit", "generated"}
    /\ custom_formats_list' =
          custom_formats_list \o RenderCustomFormats(active_assignments)
    /\ quality_profiles' = quality_profiles \o RenderQualityProfiles(custom_profiles)
    /\ cpc' = IF cpc = "edit" THEN "generated" ELSE "regenerated"
    /\ UNCHANGED <<data, profiles, active_assignments, cf_list, custom_profiles>>

\* _generate_instance_config on the instance get_config collects:
\* active_cfs = list(active_assignments.values()), custom_profiles =
\* get_profiles().  It can be run again on the same instance.
GenerateInstanceConfig ==
    /\ cpc \in {"edit", "generated"}
    /\ custom_formats_list' = RenderCustomFormats(active_assignments)
    /\ quality_profiles' = RenderQualityProfiles(custom_profiles)
    /\ cpc' = IF cpc = "edit" THEN "generated" ELSE "regenerated"
    /\ UNCHANGED <<data, profiles, active_assignments, cf_list, custom_profiles>>

\* the generated structure is handed to the serializer; editing goes on
GenerateReturn ==
    /\ cpc \in {"generated", "regenerated"}
    /\ custom_formats_list' = <<>>
    /\ quality_profiles' = <<>>
    /\ cpc' = "edit"
    /\ UNCHANGED <<data, profiles, active_assignments, cf_list, custom_profiles>>

-----------------------------------------------------------------------------
(* Inputs of the assignment model *)

NameVF == <<"V", "F">>
NameVO == <<"V", "O">>

\* the custom formats of the application
DataItems ==
    << [trash_id |-> "a", name |-> "CF-A", description |-> "",
        trash_scores |-> <<[key |-> StrDefault, sc |-> 0], [key |-> StrVf, sc |-> 50]>>],
       [trash_id |-> "b", name |-> "CF-B", description |-> "",
        trash_scores |-> <<[key |-> StrDefault, sc |-> 10]>>] >>

\* the lists of profile names the profile tab hands over, sorted
\* (add_profile does not check the name, so a name can come twice)
ProfileLists == {<<>>, <<NameVF>>, <<NameVF, NameVO>>, <<NameVF, NameVF>>}

\* the values a spin box is set to
SpinValues == {50, 100}

TableRows(n) == [1..n -> [checked : BOOLEAN, value : SpinValues]]

\* the assign_scores_to entries of a template, with or without a score
AssignPairs ==
    { [name |-> NameVF, score |-> 100],
      [name |-> NameVO, score |-> 0],
      [name |-> NameVF] }

AssignLists == UNION { [1..k -> AssignPairs] : k \in 0..MaxAssign }

\* the trash_ids lists of a template entry; "zz" is not a custom format
IdLists == {<<"a", "b">>, <<"zz", "b">>}

\* the entries of a template's custom_formats list: one id with every list of
\* targets, several ids with no target or with two, and entries that name
\* custom formats by display name ("CF-X" is not a custom format)
EntryPool ==
    { [trash_ids |-> <<"a">>, assign_scores_to |-> as] : as \in AssignLists }
    \cup
    { [trash_ids |-> ids, assign_scores_to |-> as] :
        ids \in IdLists,
        as \in {<<>>, <<[name |-> NameVF], [name |-> NameVO, score |-> 0]>>} }
    \cup
    { [names |-> [str |-> "CF-A"],
       assign_scores_to |-> <<[name |-> NameVO, score |-> 50]>>],
      [trash_ids |-> <<"b">>, names |-> [list |-> <<"CF-X", "CF-A">>],
       assign_scores_to |-> <<[name |-> NameVF]>>],
      [assign_scores_to |-> <<[name |-> NameVF, score |-> 100]>>] }

\* the quality profiles of the instance while its custom formats are edited
InstanceProfiles ==
    << [QualityProfile("P1", "custom") EXCEPT
           !.items = <<QualityProfileItem("A", <<>>),
                       QualityProfileItem("G", <<"B", "C">>)>>] >>

InitCompile ==
    /\ SelectIdle
    /\ InstancesIdle
    /\ WorkerIdle
    /\ InferIdle
    /\ ResolveIdle
    /\ LoadIdle
    /\ data = DataItems
    /\ profiles = <<>>
    /\ active_assignments = <<>>
    /\ cf_list = <<>>
    /\ custom_formats_list = <<>>
    /\ cpc = "edit"
    /\ custom_profiles = InstanceProfiles
    /\ quality_profiles = <<>>

NextCompile ==
    \/ /\ \E tid \in {"a", "b"} : \E rows \in TableRows(Len(profiles)) :
             UpdateModel(tid, rows)
       /\ UNCHANGED <<inferVars, resolveVars, loadVars, idleVars>>
    \/ /\ \E p \in ProfileLists : SetAvailableProfiles(p)
       /\ UNCHANGED <<inferVars, resolveVars, loadVars, idleVars>>
    \/ LoadBegin /\ UNCHANGED <<inferVars, resolveVars, loadVars, idleVars>>
    \/ /\ \E entry \in EntryPool : LoadEntry(entry)
       /\ UNCHANGED <<inferVars, resolveVars, loadVars, idleVars>>
    \/ LoadReturn /\ UNCHANGED <<inferVars, resolveVars, loadVars, idleVars>>
    \/ GenerateInstanceConfig /\ UNCHANGED <<inferVars, resolveVars, loadVars, idleVars>>
    \/ GenerateReturn /\ UNCHANGED <<inferVars, resolveVars, loadVars, idleVars>>

SpecCompile == InitCompile /\ [][NextCompile]_vars

-----------------------------------------------------------------------------
(* Quality profiles: ProfileEditorDialog and QualityProfileManager *)

\* ProfileEditorDialog.save_and_accept: the dialog's values written into the
\* profile; source and active are not touched
SaveAndAccept(profile, dialog) ==
    [profile EXCEPT
        !.name                   = dialog.name,
        !.reset_unmatched_scores = dialog.reset_unmatched_scores,
        !.upgrade_allowed        = dialog.upgrade_allowed,
        !.upgrade_until          = dialog.upgrade_until,
        !.min_format_score       = dialog.min_format_score,
        !.until_score            = dialog.until_score,
        !.score_set              = dialog.score_set,
        !.quality_sort           = dialog.quality_sort,
        !.items                  = dialog.items]

\* QualityProfileManager.add_profile with an accepted dialog
AddProfile(dialog) ==
    /\ cpc = "edit"
    /\ Len(custom_profiles) < MaxProfiles
    /\ custom_profiles' =
          Append(custom_profiles,
                 SaveAndAccept(QualityProfile("New Profile", "custom"), dialog))
    /\ UNCHANGED <<compileVars, quality_profiles>>

\* QualityProfileManager.edit_profile: the selected profile is edited in place
EditProfile(row, dialog) ==
    /\ cpc = "edit"
    /\ row \in 1..Len(custom_profiles)
    /\ custom_profiles' =
          [custom_profiles EXCEPT ![row] = SaveAndAccept(@, dialog)]
    /\ UNCHANGED <<compileVars, quality_profiles>>

\* QualityProfileManager.delete_profile, confirmed
DeleteProfile(row) ==
    /\ cpc = "edit"
    /\ row \in 1..Len(custom_profiles)
    /\ custom_profiles' =
          SubSeq(custom_profiles, 1, row - 1)
              \o SubSeq(custom_profiles, row + 1, Len(custom_profiles))
    /\ UNCHANGED <<compileVars, quality_profiles>>

\* lines 588-597: an entry of a qualities list is a string or a dict
ImportItem(q_entry) ==
    IF "scalar" \in DOMAIN q_entry
    THEN QualityProfileItem(q_entry.scalar, <<>>)
    ELSE QualityProfileItem(Get(q_entry, "name", "Unknown"),
                            Get(q_entry, "qualities", <<>>))

\* lines 561-598: one dict of an include's quality_profiles list parsed into
\* a QualityProfile; reset_unmatched_scores is a dict, a bool or absent
ImportProfile(p_data, source) ==
    LET base == QualityProfile(Get(p_data, "name", "Imported Profile"), source)
        rus  == Get(p_data, "reset_unmatched_scores", NoItem)
        upg  == Get(p_data, "upgrade", <<>>)
        qs   == Get(p_data, "qualities", <<>>)
    IN  [base EXCEPT
            !.reset_unmatched_scores =
                IF "none" \in DOMAIN rus THEN @
                ELSE IF "bool" \in DOMAIN rus THEN rus.bool
                ELSE Get(rus, "enabled", TRUE),
            !.upgrade_allowed  = Get(upg, "allowed", FALSE),
            !.upgrade_until    = Get(upg, "until_quality", ""),
            !.until_score      = Get(upg, "until_score", 10000),
            !.min_format_score = Get(p_data, "min_format_score", 0),
            !.score_set        = Get(p_data, "score_set", ""),
            !.quality_sort     = Get(p_data, "quality_sort", "top"),
            !.items            = [i \in 1..Len(qs) |-> ImportItem(qs[i])]]

\* QualityProfileManager._import_profiles: every dict appended in order
ImportProfiles(profs, profiles_data, source) ==
    profs \o [i \in 1..Len(profiles_data) |-> ImportProfile(profiles_data[i], source)]

IsCustom(p) == p.source = "custom"

\* QualityProfileManager.sync_profiles: the custom profiles are kept, the
\* profiles of the selected includes are imported after them
SyncProfiles(profiles_data) ==
    /\ cpc = "edit"
    /\ Len(SelectSeq(custom_profiles, IsCustom)) + Len(profiles_data) <= MaxProfiles
    /\ custom_profiles' =
          ImportProfiles(SelectSeq(custom_profiles, IsCustom), profiles_data, "include")
    /\ UNCHANGED <<compileVars, quality_profiles>>

\* the quality_profiles lists of the selected includes, as _sync_act3_profiles
\* collects them: none, one profile written out in full, or a profile with a
\* plain bool flag followed by one with no name
ProfilesData ==
    { <<>>,
      << [name |-> "P1",
          reset_unmatched_scores |-> [enabled |-> FALSE],
          upgrade |-> [allowed |-> TRUE, until_quality |-> "A", until_score |-> 500],
          min_format_score |-> 10,
          quality_sort |-> "bottom",
          qualities |-> <<Scalar("A"), [name |-> "G", qualities |-> <<"B", "C">>]>>] >>,
      << [name |-> "P2", reset_unmatched_scores |-> [bool |-> TRUE]],
         [qualities |-> <<Scalar("A")>>] >> }

\* the structures QualityProfileTree.get_profile_structure returns: a node
\* with children is a group, a node without is a leaf
ItemLists ==
    { <<>>,
      <<QualityProfileItem("A", <<>>)>>,
      <<QualityProfileItem("A", <<>>), QualityProfileItem("G", <<"B", "C">>)>>,
      <<QualityProfileItem("G", <<"C", "B">>), QualityProfileItem("A", <<>>)>> }

ProfileNames == {"P1", "P2"}

\* the settings of the dialog: the defaults, or every widget changed
DialogSettings ==
    { [reset_unmatched_scores |-> TRUE, upgrade_allowed |-> FALSE,
       min_format_score |-> 0, until_score |-> 10000, score_set |-> "",
       quality_sort |-> "top"],
      [reset_unmatched_scores |-> FALSE, upgrade_allowed |-> TRUE,
       min_format_score |-> 10, until_score |-> 500, score_set |-> "sqp",
       quality_sort |-> "bottom"] }

\* an accepted dialog; the upgrade-until combo lists the top-level names
Dialogs ==
    { [name                   |-> n,
       reset_unmatched_scores |-> st.reset_unmatched_scores,
       upgrade_allowed        |-> st.upgrade_allowed,
       upgrade_until          |-> IF its = <<>> THEN "" ELSE its[1].name,
       min_format_score       |-> st.min_format_score,
       until_score            |-> st.until_score,
       score_set              |-> st.score_set,
       quality_sort           |-> st.quality_sort,
       items                  |-> its] :
        n \in ProfileNames, st \in DialogSettings, its \in ItemLists }

InitProfiles ==
    /\ SelectIdle
    /\ InstancesIdle
    /\ WorkerIdle
    /\ InferIdle
    /\ ResolveIdle
    /\ LoadIdle
    /\ data = <<>>
    /\ profiles = <<>>
    /\ active_assignments = <<>>
    /\ cf_list = <<>>
    /\ custom_formats_list = <<>>
    /\ cpc = "edit"
    /\ custom_profiles = <<>>
    /\ quality_profiles = <<>>

NextProfiles ==
    \/ /\ \E dialog \in Dialogs : AddProfile(dialog)
       /\ UNCHANGED <<inferVars, resolveVars, loadVars, idleVars>>
    \/ /\ \E row \in 1..MaxProfiles : \E dialog \in Dialogs :
             EditProfile(row, dialog)
       /\ UNCHANGED <<inferVars, resolveVars, loadVars, idleVars>>
    \/ /\ \E row \in 1..MaxProfiles : DeleteProfile(row)
       /\ UNCHANGED <<inferVars, resolveVars, loadVars, idleVars>>
    \/ /\ \E profiles_data \in ProfilesData : SyncProfiles(profiles_data)
       /\ UNCHANGED <<inferVars, resolveVars, loadVars, idleVars>>
    \/ GenerateInstanceConfig /\ UNCHANGED <<inferVars, resolveVars, loadVars, idleVars>>
    \/ GenerateReturn /\ UNCHANGED <<inferVars, resolveVars, loadVars, idleVars>>

SpecProfiles == InitProfiles /\ [][NextProfiles]_vars

-----------------------------------------------------------------------------
(* Catalog load: DataManager.load_data *)

\* self.cf_by_id[trash_id] = value
IndexSet(index, trash_id, value) ==
    [x \in (DOMAIN index) \cup {trash_id} |->
        IF x = trash_id THEN value ELSE index[x]]

\* {**cf, "app": app}
WithApp(cf, app) ==
    [k \in (DOMAIN cf) \cup {"app"} |-> IF k = "app" THEN app ELSE cf[k]]

\* lines 56-59: the formats of one application; an entry that is not a dict
\* raises at cf.get and leaves the index as far as it was built
RECURSIVE IndexFormats(_, _, _)
IndexFormats(index, formats, app) ==
    IF formats = <<>> THEN [index |-> index, raised |-> FALSE]
    ELSE LET cf == Head(formats)
         IN  IF "notdict" \in DOMAIN cf THEN [index |-> index, raised |-> TRUE]
             ELSE IF "trash_id" \in DOMAIN cf
                  THEN IndexFormats(IndexSet(index, cf.trash_id, WithApp(cf, app)),
                                    Tail(formats), app)
                  ELSE IndexFormats(index, Tail(formats), app)

\* DataManager._index_custom_formats: the applications in order, "guide-only"
\* skipped; the entries go into the index as it is
RECURSIVE IndexCustomFormats(_, _)
IndexCustomFormats(index, apps) ==
    IF apps = <<>> THEN [index |-> index, raised |-> FALSE]
    ELSE LET app == Head(apps)
         IN  IF app.app = "guide-only" THEN IndexCustomFormats(index, Tail(apps))
             ELSE LET r == IndexFormats(index, app.formats, app.app)
                  IN  IF r.raised THEN r
                      ELSE IndexCustomFormats(r.index, Tail(apps))

\* the catalog the lookups read
Catalog == <<custom_formats, cf_by_id, templates>>

resolverLocals == <<root_template, collected_cfs, processed_names, queue, rpc>>

\* lines 24-34: the custom formats file is read and indexed
LoadCustomFormats ==
    /\ lpc = "idle"
    /\ catalog_before' = Catalog
    /\ IF cf_file.kind = "missing"
       THEN \* line 33-34: return False
            /\ load_result' = FALSE
            /\ lpc' = "returned"
            /\ UNCHANGED <<custom_formats, cf_by_id>>
       ELSE IF cf_file.kind = "invalid"
       THEN \* json.load raises before the assignment; line 47-49
            /\ load_result' = FALSE
            /\ lpc' = "returned"
            /\ UNCHANGED <<custom_formats, cf_by_id>>
       ELSE LET r == IndexCustomFormats(cf_by_id, cf_file.doc)
            IN  /\ custom_formats' = cf_file.doc
                /\ cf_by_id' = r.index
                /\ load_result' = FALSE
                /\ lpc' = IF r.raised THEN "returned" ELSE "templates"
    /\ UNCHANGED <<cf_file, tpl_file, templates>>

\* lines 36-45: the templates file is read
LoadTemplates ==
    /\ lpc = "templates"
    /\ IF tpl_file.kind = "json"
       THEN /\ templates' = tpl_file.doc
            /\ load_result' = TRUE
       ELSE \* file not found (line 43), or json.load raises (line 47-49)
            /\ load_result' = FALSE
            /\ UNCHANGED templates
    /\ lpc' = "returned"
    /\ UNCHANGED <<custom_formats, cf_by_id, cf_file, tpl_file, catalog_before>>

\* the caller has the result; the window goes on with the catalog as it is
LoadDataReturn ==
    /\ lpc = "returned"
    /\ lpc' = "idle"
    /\ load_result' = FALSE
    /\ catalog_before' = NoSnapshot
    /\ UNCHANGED <<custom_formats, cf_by_id, cf_file, tpl_file, templates>>

\* the data files are rewritten between two loads
WriteFiles(cf, tpl) ==
    /\ lpc = "idle"
    /\ cf_file' = cf
    /\ tpl_file' = tpl
    /\ UNCHANGED <<custom_formats, cf_by_id, lpc, load_result, catalog_before,
                   templates>>

\* a custom format of the catalog file
Format(trash_id, name) == [trash_id |-> trash_id, name |-> name]

\* an entry of a formats list that is not a dict
NotADict == [notdict |-> TRUE]

\* the "custom_formats" section of custom_formats.json: two versions, and one
\* whose formats list is damaged after its first entry
CfDocV1 ==
    << [app |-> "radarr",
        formats |-> <<Format("a", "CF-A"), Format("b", "CF-B"), [name |-> "no id"]>>],
       [app |-> "guide-only", formats |-> <<Format("g", "Guide")>>] >>

CfDocV2 ==
    << [app |-> "radarr", formats |-> <<Format("a", "CF-A2")>>],
       [app |-> "sonarr", formats |-> <<Format("c", "CF-C")>>] >>

CfDocDamaged ==
    << [app |-> "radarr", formats |-> <<Format("d", "CF-D"), NotADict>>] >>

CfFiles ==
    { MissingFile, [kind |-> "invalid"],
      [kind |-> "json", doc |-> CfDocV1],
      [kind |-> "json", doc |-> CfDocV2],
      [kind |-> "json", doc |-> CfDocDamaged] }

\* templates.json, as the section of the application: two versions
TplDocV1 ==
    [templates |-> <<[name |-> "A", custom_formats |-> <<Cf("a")>>, include |-> <<>>]>>,
     includes  |-> <<>>]

TplDocV2 ==
    [templates |-> <<[name |-> "B", custom_formats |-> <<Cf("c")>>, include |-> <<>>]>>,
     includes  |-> <<>>]

TplFiles ==
    { MissingFile, [kind |-> "invalid"],
      [kind |-> "json", doc |-> TplDocV1],
      [kind |-> "json", doc |-> TplDocV2] }

\* DataManager.__init__: an empty catalog; the files are whatever is on disk
InitLoad ==
    /\ SelectIdle
    /\ InstancesIdle
    /\ WorkerIdle
    /\ InferIdle
    /\ CompileIdle
    /\ templates = [templates |-> <<>>, includes |-> <<>>]
    /\ root_template = NoItem
    /\ collected_cfs = <<>>
    /\ processed_names = {}
    /\ queue = <<>>
    /\ rpc = "idle"
    /\ custom_formats = <<>>
    /\ cf_by_id = <<>>
    /\ cf_file \in CfFiles
    /\ tpl_file \in TplFiles
    /\ lpc = "idle"
    /\ load_result = FALSE
    /\ catalog_before = NoSnapshot

NextLoad ==
    \/ /\ LoadCustomFormats
       /\ UNCHANGED <<inferVars, resolverLocals, compileVars, profileVars, idleVars>>
    \/ /\ LoadTemplates
       /\ UNCHANGED <<inferVars, resolverLocals, compileVars, profileVars, idleVars>>
    \/ /\ LoadDataReturn
       /\ UNCHANGED <<inferVars, resolverLocals, compileVars, profileVars, idleVars>>
    \/ /\ \E cf \in CfFiles, tpl \in TplFiles : WriteFiles(cf, tpl)
       /\ UNCHANGED <<inferVars, resolverLocals, compileVars, profileVars, idleVars>>

SpecLoad == InitLoad /\ [][NextLoad]_vars

-----------------------------------------------------------------------------
(* Template selection: InstanceEditor.on_template_changed, and the baseline *)
(* load CFEditor.load_assignments_from_template on a resolver result        *)

\* lines 229-236: the custom formats nested in the root template's content,
\* under the first configuration key of the application
RootCfs(template_data) ==
    IF "content" \in DOMAIN template_data
          /\ "radarr" \in DOMAIN template_data.content
    THEN Get(template_data.content.radarr.main, "custom_formats", <<>>)
    ELSE <<>>

\* lines 182-204: the model is cleared; for "Custom (Manual)" the handler
\* then calls CFEditor.sync_assignments_from_templates, which CFEditor does
\* not define, and the AttributeError leaves the handler; for a template the
\* first resolution starts
OnTemplateChanged(index) ==
    /\ spc = "idle"
    /\ cpc = "edit"
    /\ index \in 0..Len(GetTemplatesForApp(templates))
    /\ active_assignments' = <<>>
    /\ IF index = 0
       THEN /\ spc' = "raised"
            /\ UNCHANGED <<root_template, rpc>>
       ELSE /\ root_template' = GetTemplatesForApp(templates)[index]
            /\ rpc' = "start"
            /\ spc' = "merged"
    /\ UNCHANGED <<templates, collected_cfs, processed_names, queue>>
    /\ UNCHANGED <<data, profiles, cf_list, custom_formats_list, cpc>>
    /\ UNCHANGED <<resolved_cfs, templates_loaded>>

\* line 226: the template is resolved a second time
ResolveAgain ==
    /\ spc = "merged"
    /\ rpc = "done"
    /\ rpc' = "start"
    /\ spc' = "resolved"
    /\ UNCHANGED <<templates, root_template, collected_cfs, processed_names, queue>>
    /\ UNCHANGED <<compileVars, resolved_cfs, templates_loaded>>

\* lines 228-244: the root's nested items are appended to the result, the
\* call of sync_assignments_from_templates raises AttributeError, the except
\* clause logs it and the handler returns
FinishSelection ==
    /\ spc = "resolved"
    /\ rpc = "done"
    /\ resolved_cfs' = collected_cfs \o RootCfs(root_template)
    /\ spc' = "returned"
    /\ UNCHANGED <<resolveVars, compileVars, templates_loaded>>

\* the event is over; the locals are gone
SelectReturn ==
    /\ spc \in {"returned", "raised"}
    /\ spc' = "idle"
    /\ resolved_cfs' = <<>>
    /\ rpc' = "idle"
    /\ UNCHANGED <<templates, root_template, collected_cfs, processed_names, queue>>
    /\ UNCHANGED <<compileVars, templates_loaded>>

\* resolve_template_includes called for a template of the catalog, its
\* result to be handed to load_assignments_from_template
BaselineResolve(index) ==
    /\ spc = "idle"
    /\ cpc = "edit"
    /\ index \in 1..Len(GetTemplatesForApp(templates))
    /\ root_template' = GetTemplatesForApp(templates)[index]
    /\ rpc' = "start"
    /\ spc' = "baseline"
    /\ UNCHANGED <<templates, collected_cfs, processed_names, queue>>
    /\ UNCHANGED <<compileVars, resolved_cfs, templates_loaded>>

\* load_assignments_from_template(cf_list) with the list the resolver returned
BaselineBegin ==
    /\ spc = "baseline"
    /\ rpc = "done"
    /\ LoadBegin
    /\ resolved_cfs' = collected_cfs
    /\ spc' = "loading"
    /\ UNCHANGED <<resolveVars, templates_loaded>>

\* entry.trash_ids = ids for the entry object `entry` of a custom_formats list
WriteBackList(cfs, entry, ids) ==
    [i \in 1..Len(cfs) |->
        IF cfs[i] = entry /\ "trash_ids" \in DOMAIN entry
        THEN [cfs[i] EXCEPT !.trash_ids = ids] ELSE cfs[i]]

\* the same for the catalog entry that owns the list: the resolver hands out
\* the dicts of an entry's top-level custom_formats list themselves
WriteBackOwner(item, entry, ids) ==
    IF "custom_formats" \in DOMAIN item
    THEN [item EXCEPT !.custom_formats = WriteBackList(@, entry, ids)]
    ELSE item

WriteBack(t, entry, ids) ==
    [templates |-> [i \in 1..Len(t.templates) |->
                        WriteBackOwner(t.templates[i], entry, ids)],
     includes  |-> [c \in 1..Len(t.includes) |->
                        [t.includes[c] EXCEPT !.items =
                            [i \in 1..Len(@) |-> WriteBackOwner(@[i], entry, ids)]]]]

\* lines 279-338 for the next entry of the list; the append of line 291 works
\* on the list of the catalog's own entry
BaselineEntry ==
    /\ spc = "loading"
    /\ Len(cf_list) < Len(resolved_cfs)
    /\ LET entry == resolved_cfs[Len(cf_list) + 1]
       IN  /\ Len(EntryIds(entry)) <= MaxIds
           /\ LoadEntry(entry)
           /\ templates' = WriteBack(templates, entry, EntryIds(entry))
    /\ UNCHANGED <<root_template, collected_cfs, processed_names, queue, rpc>>
    /\ UNCHANGED selectVars

\* the loop of load_assignments_from_template is over
BaselineReturn ==
    /\ spc = "loading"
    /\ Len(cf_list) = Len(resolved_cfs)
    /\ LoadReturn
    /\ spc' = "idle"
    /\ resolved_cfs' = <<>>
    /\ rpc' = "idle"
    /\ UNCHANGED <<templates, root_template, collected_cfs, processed_names, queue>>
    /\ UNCHANGED templates_loaded

\* embedded entries of the catalog, all different: ids only, ids with target
\* scores, ids together with display names, display names only
EntryIdsOnly  == [trash_ids |-> <<"a">>]
EntryScored   == [trash_ids |-> <<"b">>,
                  assign_scores_to |-> <<[name |-> NameVF, score |-> 100]>>]
EntryNamed    == [trash_ids |-> <<"b">>, names |-> [list |-> <<"CF-X", "CF-A">>],
                  assign_scores_to |-> <<[name |-> NameVF]>>]
EntryNameOnly == [names |-> [str |-> "CF-A"],
                  assign_scores_to |-> <<[name |-> NameVO, score |-> 50]>>]

\* the items of the include "I"
IncludeItems == {<<EntryScored>>, <<EntryNamed>>, <<EntryNameOnly>>}

\* DataManager after load_data: a template "A" with its own item and a
\* reference to the include "I", a template "B" without items
InitSelect ==
    /\ InferIdle
    /\ LoadIdle
    /\ InstancesIdle
    /\ WorkerIdle
    /\ \E sa \in Shapes, si \in Shapes, items \in IncludeItems :
          templates =
             [templates |-> <<MakeEntry(sa, "A", <<EntryIdsOnly>>,
                                        <<[template |-> "I"]>>),
                              Direct("B", <<>>, <<>>)>>,
              includes  |-> <<[type |-> "custom-formats",
                               items |-> <<MakeEntry(si, "I", items, <<>>)>>]>>]
    /\ templates_loaded = templates
    /\ root_template = NoItem
    /\ collected_cfs = <<>>
    /\ processed_names = {}
    /\ queue = <<>>
    /\ rpc = "idle"
    /\ data = DataItems
    /\ profiles = <<NameVF>>
    /\ active_assignments = <<>>
    /\ cf_list = <<>>
    /\ custom_formats_list = <<>>
    /\ cpc = "edit"
    /\ custom_profiles = InstanceProfiles
    /\ quality_profiles = <<>>
    /\ spc = "idle"
    /\ resolved_cfs = <<>>

NextSelect ==
    \/ /\ \E index \in 0..2 : OnTemplateChanged(index)
       /\ UNCHANGED <<inferVars, profileVars, loadVars, instanceVars, workerVars>>
    \/ /\ ResolveAgain
       /\ UNCHANGED <<inferVars, profileVars, loadVars, instanceVars, workerVars>>
    \/ /\ FinishSelection
       /\ UNCHANGED <<inferVars, profileVars, loadVars, instanceVars, workerVars>>
    \/ /\ SelectReturn
       /\ UNCHANGED <<inferVars, profileVars, loadVars, instanceVars, workerVars>>
    \/ /\ \E index \in 1..2 : BaselineResolve(index)
       /\ UNCHANGED <<inferVars, profileVars, loadVars, instanceVars, workerVars>>
    \/ /\ BaselineBegin
       /\ UNCHANGED <<inferVars, loadVars, instanceVars, workerVars>>
    \/ /\ BaselineEntry
       /\ UNCHANGED <<inferVars, loadVars, instanceVars, workerVars>>
    \/ /\ BaselineReturn
       /\ UNCHANGED <<inferVars, loadVars, instanceVars, workerVars>>
    \/ /\ ResolveStart
       /\ UNCHANGED <<inferVars, compileVars, profileVars, loadVars, idleVars>>
    \/ /\ ResolveStep
       /\ UNCHANGED <<inferVars, compileVars, profileVars, loadVars, idleVars>>
    \/ /\ ResolveReturn
       /\ UNCHANGED <<inferVars, compileVars, profileVars, loadVars, idleVars>>
    \/ /\ spc = "idle"
       /\ \E tid \in {"a", "b"} : \E rows \in TableRows(Len(profiles)) :
             UpdateModel(tid, rows)
       /\ UNCHANGED <<inferVars, resolveVars, loadVars, idleVars>>

SpecSelect == InitSelect /\ [][NextSelect]_vars

-----------------------------------------------------------------------------
(* Instances: the tabs of MainWindow and YAMLGenerator.generate_config *)

\* InstanceEditor.__init__ followed by add_instance's editor.config.name = name
NewInstance(app_type, name) ==
    [app_type |-> app_type, name |-> name, base_url |-> "", api_key |-> ""]

\* MainWindow.add_instance: a new tab at the end; the name is not compared
\* with the names of the other tabs
AddInstance(app_type, name) ==
    /\ yaml_doc = NoItem
    /\ Len(tabs) < MaxInstances
    /\ tabs' = Append(tabs, NewInstance(app_type, name))
    /\ UNCHANGED yaml_doc

\* CustomTabBar.rename_tab with an accepted, non-empty name:
\* setTabText and InstanceEditor.update_config_name
RenameTab(index, new_name) ==
    /\ yaml_doc = NoItem
    /\ index \in 1..Len(tabs)
    /\ new_name # ""
    /\ tabs' = [tabs EXCEPT ![index].name = new_name]
    /\ UNCHANGED yaml_doc

\* MainWindow.remove_instance_by_index, confirmed
RemoveInstanceByIndex(index) ==
    /\ yaml_doc = NoItem
    /\ index \in 1..Len(tabs)
    /\ tabs' = SubSeq(tabs, 1, index - 1) \o SubSeq(tabs, index + 1, Len(tabs))
    /\ UNCHANGED yaml_doc

\* InstanceEditor.edit_connection_info with an accepted dialog
EditConnectionInfo(index, url, key) ==
    /\ yaml_doc = NoItem
    /\ index \in 1..Len(tabs)
    /\ tabs' = [tabs EXCEPT ![index].base_url = url, ![index].api_key = key]
    /\ UNCHANGED yaml_doc

\* generate_yaml, lines 610-617: the configs of one application, in tab order
InstancesOf(editors, app_type) ==
    SelectSeq(editors, LAMBDA editor : editor.app_type = app_type)

\* _generate_instance_config, lines 65-68, for an instance whose editor has
\* no includes, no profiles and no assignments
InstanceConfigOf(instance) ==
    [base_url |-> IF instance.base_url # "" THEN instance.base_url
                  ELSE "http://localhost:7878",
     api_key  |-> IF instance.api_key # "" THEN instance.api_key
                  ELSE "YOUR_API_KEY"]

\* app_section[name] = instance_config on a dict in insertion order
SectionSet(app_section, name, instance_config) ==
    IF \E i \in 1..Len(app_section) : app_section[i].key = name
    THEN [i \in 1..Len(app_section) |->
            IF app_section[i].key = name
            THEN [key |-> name, value |-> instance_config] ELSE app_section[i]]
    ELSE Append(app_section, [key |-> name, value |-> instance_config])

\* YAMLGenerator._generate_app_section
RECURSIVE GenerateAppSection(_, _)
GenerateAppSection(app_section, instances) ==
    IF instances = <<>> THEN app_section
    ELSE GenerateAppSection(
             SectionSet(app_section, Head(instances).name,
                        InstanceConfigOf(Head(instances))),
             Tail(instances))

\* YAMLGenerator.generate_config, lines 25-35: a section for each application
\* that has instances
GenerateConfig(editors) ==
    [app \in {a \in {"radarr", "sonarr"} : InstancesOf(editors, a) # <<>>} |->
        GenerateAppSection(<<>>, InstancesOf(editors, app))]

\* MainWindow.generate_yaml up to the dump of the dict
GenerateYaml ==
    /\ yaml_doc = NoItem
    /\ yaml_doc' = GenerateConfig(tabs)
    /\ UNCHANGED tabs

\* the file is written and generate_yaml returns
GenerateYamlReturn ==
    /\ yaml_doc # NoItem
    /\ yaml_doc' = NoItem
    /\ UNCHANGED tabs

\* the names typed into the dialogs; "Radarr" and "Sonarr" are the names of
\* the two default instances
InstanceNames == {"Radarr", "Sonarr", "Films"}

\* the values of the connection dialog
Connections == {<<"", "">>, <<"http://films:7878", "K1">>}

\* MainWindow.setup_ui, lines 528-530: the two default instances
InitInstances ==
    /\ InferIdle
    /\ ResolveIdle
    /\ CompileIdle
    /\ LoadIdle
    /\ SelectIdle
    /\ WorkerIdle
    /\ tabs = <<NewInstance("radarr", "Radarr"), NewInstance("sonarr", "Sonarr")>>
    /\ yaml_doc = NoItem

otherThanInstances ==
    <<inferVars, resolveVars, compileVars, profileVars, loadVars, selectVars,
      workerVars>>

NextInstances ==
    \/ /\ \E app_type \in {"radarr", "sonarr"}, name \in InstanceNames :
             AddInstance(app_type, name)
       /\ UNCHANGED otherThanInstances
    \/ /\ \E index \in 1..MaxInstances, new_name \in InstanceNames :
             RenameTab(index, new_name)
       /\ UNCHANGED otherThanInstances
    \/ /\ \E index \in 1..MaxInstances : RemoveInstanceByIndex(index)
       /\ UNCHANGED otherThanInstances
    \/ /\ \E index \in 1..MaxInstances, c \in Connections :
             EditConnectionInfo(index, c[1], c[2])
       /\ UNCHANGED otherThanInstances
    \/ GenerateYaml /\ UNCHANGED otherThanInstances
    \/ GenerateYamlReturn /\ UNCHANGED otherThanInstances

SpecInstances == InitInstances /\ [][NextInstances]_vars

-----------------------------------------------------------------------------
(* Background synchronisation: SyncWorker.run and the slots of MainWindow *)

\* _save_json: the file is rewritten, or the write fails and is only logged
SaveJson(file, doc, saved) ==
    IF saved THEN [kind |-> "json", doc |-> doc] ELSE file

\* lines 31-34: the run begins with two progress messages
RunBegin ==
    /\ wpc = "started"
    /\ emitted' = emitted \o <<"progress", "progress">>
    /\ wpc' = "templates"
    /\ UNCHANGED <<extractions, handled, loadVars>>

\* template extraction that goes on after it has reported its failure
ExtractTemplatesNoReturn(ok, saved) ==
    /\ wpc = "templates"
    /\ extractions' = Append(extractions, [what |-> "templates", ok |-> ok])
    /\ IF ok
       THEN /\ tpl_file' = SaveJson(tpl_file, TplDocV2, saved)
            /\ emitted' = emitted \o <<"progress", "progress">>
       ELSE /\ emitted' = emitted \o <<"error", "progress">>
            /\ UNCHANGED tpl_file
    /\ wpc' = "formats"
    /\ UNCHANGED <<custom_formats, cf_by_id, cf_file, lpc, load_result,
                   catalog_before, handled>>

\* lines 37-53: the templates are extracted and saved; an exception is
\* reported with `error` and ends the run
ExtractTemplates(ok, saved) ==
    /\ wpc = "templates"
    /\ extractions' = Append(extractions, [what |-> "templates", ok |-> ok])
    /\ IF ok
       THEN /\ tpl_file' = SaveJson(tpl_file, TplDocV2, saved)
            /\ emitted' = emitted \o <<"progress", "progress">>
            /\ wpc' = "formats"
       ELSE /\ emitted' = Append(emitted, "error")
            /\ wpc' = "done"
            /\ UNCHANGED tpl_file
    /\ UNCHANGED <<custom_formats, cf_by_id, cf_file, lpc, load_result,
                   catalog_before, handled>>

\* lines 55-76: the custom formats are extracted and saved; an exception is
\* reported with `error` and ends the run
ExtractCustomFormats(ok, saved) ==
    /\ wpc = "formats"
    /\ extractions' = Append(extractions, [what |-> "custom_formats", ok |-> ok])
    /\ IF ok
       THEN /\ cf_file' = SaveJson(cf_file, CfDocV2, saved)
            /\ emitted' = emitted \o <<"progress", "progress">>
            /\ wpc' = "finalize"
       ELSE /\ emitted' = Append(emitted, "error")
            /\ wpc' = "done"
            /\ UNCHANGED cf_file
    /\ UNCHANGED <<custom_formats, cf_by_id, tpl_file, lpc, load_result,
                   catalog_before, handled>>

\* lines 77-78: data_ready, then finished, and run returns
Finalize ==
    /\ wpc = "finalize"
    /\ emitted' = emitted \o <<"data_ready", "finished">>
    /\ wpc' = "done"
    /\ UNCHANGED <<extractions, handled, loadVars>>

\* the GUI thread takes the next queued signal: update_sync_progress for
\* progress; data_ready has no slot
HandleProgress ==
    /\ lpc = "idle"
    /\ handled < Len(emitted)
    /\ emitted[handled + 1] \in {"progress", "data_ready"}
    /\ handled' = handled + 1
    /\ UNCHANGED <<wpc, emitted, extractions, loadVars>>

\* on_sync_finished and on_sync_error: both call load_data
HandleTerminal ==
    /\ handled < Len(emitted)
    /\ emitted[handled + 1] \in {"finished", "error"}
    /\ handled' = handled + 1
    /\ LoadCustomFormats
    /\ UNCHANGED <<wpc, emitted, extractions>>

\* MainWindow.__init__ with UPDATE_DATA_ON_STARTUP set: start_initial_sync has
\* started the worker; the catalog is empty, the files are whatever is on disk
InitSync ==
    /\ InferIdle
    /\ CompileIdle
    /\ SelectIdle
    /\ InstancesIdle
    /\ templates = [templates |-> <<>>, includes |-> <<>>]
    /\ root_template = NoItem
    /\ collected_cfs = <<>>
    /\ processed_names = {}
    /\ queue = <<>>
    /\ rpc = "idle"
    /\ custom_formats = <<>>
    /\ cf_by_id = <<>>
    /\ cf_file \in CfFiles
    /\ tpl_file \in TplFiles
    /\ lpc = "idle"
    /\ load_result = FALSE
    /\ catalog_before = NoSnapshot
    /\ wpc = "started"
    /\ emitted = <<>>
    /\ extractions = <<>>
    /\ handled = 0

otherThanSync ==
    <<inferVars, resolverLocals, compileVars, profileVars, selectVars, instanceVars>>

\* the steps of the worker thread
NextWorker ==
    \/ RunBegin /\ UNCHANGED <<otherThanSync, templates>>
    \/ /\ \E ok \in BOOLEAN, saved \in BOOLEAN : ExtractTemplates(ok, saved)
       /\ UNCHANGED <<otherThanSync, templates>>
    \/ /\ \E ok \in BOOLEAN, saved \in BOOLEAN : ExtractCustomFormats(ok, saved)
       /\ UNCHANGED <<otherThanSync, templates>>
    \/ Finalize /\ UNCHANGED <<otherThanSync, templates>>

\* the steps of the GUI thread
NextGui ==
    \/ HandleProgress /\ UNCHANGED <<otherThanSync, templates>>
    \/ HandleTerminal /\ UNCHANGED otherThanSync
    \/ LoadTemplates /\ UNCHANGED <<otherThanSync, workerVars>>
    \/ LoadDataReturn /\ UNCHANGED <<otherThanSync, workerVars>>

NextSync == NextWorker \/ NextGui

SpecSync == InitSync /\ [][NextSync]_vars

\* the worker thread runs on its own; every request of the extractors has a
\* timeout, so an extraction returns or raises
SpecSyncFair == SpecSync /\ WF_vars(NextWorker)

-----------------------------------------------------------------------------
(* Properties of the output compiler *)

\* the (targetName, score) pairs of an Assignment
PairsOf(cf) ==
    {<<cf.profile_scores[i].name, cf.profile_scores[i].score>> :
        i \in 1..Len(cf.profile_scores)}

\* the (targetName, score) pairs of a block's shared target-score list
BlockPairs(block) ==
    LET shared == Get(block, "assign_scores_to", <<>>)
    IN  {<<shared[i].name, shared[i].score>> : i \in 1..Len(shared)}

\* the output blocks that list an item id
BlocksListing(tid) ==
    {k \in 1..Len(custom_formats_list) :
        tid \in Range(custom_formats_list[k].trash_ids)}

\* C1: for every Assignment and the output block that lists its item id, the
\* block's shared target-score list holds exactly the Assignment's own
\* (targetName, score) pairs.
C1_BlockKeepsOwnScores ==
    cpc = "generated" =>
        \A i \in 1..Len(active_assignments) :
            \A k \in BlocksListing(active_assignments[i].trash_id) :
                BlockPairs(custom_formats_list[k]) = PairsOf(active_assignments[i])

\* C2: two Assignments with the same set of (targetName, score) pairs and
\* different item ids are listed in one single block, whatever order the
\* pairs are stored in.
C2_SameSignatureOneBlock ==
    cpc = "generated" =>
        \A i, j \in 1..Len(active_assignments) :
            ( /\ i # j
              /\ PairsOf(active_assignments[i]) = PairsOf(active_assignments[j]) )
            => \E k \in 1..Len(custom_formats_list) :
                  /\ BlocksListing(active_assignments[i].trash_id) = {k}
                  /\ BlocksListing(active_assignments[j].trash_id) = {k}

-----------------------------------------------------------------------------
(* Properties of the include resolver *)

\* the content node of an entry: the entry itself when it exposes its fields
\* directly, the inside of its `content` wrapper otherwise (one level, or two
\* through the application and instance keys)
ContentNodeOf(e) ==
    IF "content" \notin DOMAIN e THEN e
    ELSE IF "radarr" \in DOMAIN e.content THEN e.content.radarr.main
    ELSE e.content

EmbeddedItems(e) == Get(ContentNodeOf(e), "custom_formats", <<>>)

IncludeRefs(e) == TemplateNames(Get(ContentNodeOf(e), "include", <<>>))

Resolvable(n) == GetAnyTemplateOrInclude(templates, n) # NoItem

\* the names reachable from the start template through include references
RECURSIVE ReachableFrom(_)
ReachableFrom(S) ==
    LET more == S \cup UNION { Range(IncludeRefs(GetAnyTemplateOrInclude(templates, n))) :
                                 n \in {m \in S : Resolvable(m)} }
    IN  IF more = S THEN S ELSE ReachableFrom(more)

ReachableNames ==
    ReachableFrom({root_template.name} \cup Range(IncludeRefs(root_template)))

\* the breadth-first discovery order: each name is expanded once
RECURSIVE DiscoveryOrder(_, _, _)
DiscoveryOrder(q, visited, result) ==
    IF q = <<>> THEN result
    ELSE IF Head(q) \in visited THEN DiscoveryOrder(Tail(q), visited, result)
    ELSE IF ~Resolvable(Head(q))
         THEN DiscoveryOrder(Tail(q), visited \cup {Head(q)}, result)
         ELSE LET e == GetAnyTemplateOrInclude(templates, Head(q))
              IN  DiscoveryOrder(Tail(q) \o IncludeRefs(e),
                                 visited \cup {Head(q)},
                                 result \o EmbeddedItems(e))

Occurrences(x, seq) == Cardinality({i \in 1..Len(seq) : seq[i] = x})

\* C3: in any include graph (cycles, self-includes, a leaf reachable through
\* several parents) the result holds the embedded items of every resolvable
\* reachable name exactly once, holds nothing else, and is in discovery order.
C3_EachReachableNameOnce ==
    rpc = "done" =>
        /\ \A n \in {m \in ReachableNames : Resolvable(m)} :
              \A x \in Range(EmbeddedItems(GetAnyTemplateOrInclude(templates, n))) :
                  Occurrences(x, collected_cfs) = 1
        /\ \A x \in Range(collected_cfs) :
              \E n \in {m \in ReachableNames : Resolvable(m)} :
                  x \in Range(EmbeddedItems(GetAnyTemplateOrInclude(templates, n)))
        /\ collected_cfs =
              DiscoveryOrder(IncludeRefs(root_template), {root_template.name},
                             EmbeddedItems(root_template))

\* the names whose include references the traversal follows from entry n
FollowedRefs(n) ==
    LET item == GetAnyTemplateOrInclude(templates, n)
    IN  IF item = NoItem THEN {}
        ELSE Range(TemplateNames(Get(Get(item, "content", item), "include", <<>>)))

\* C4: for every catalog and start template the traversal terminates: the
\* queue eventually empties, cycles included, and the visited set never
\* shrinks on the way.
C4_ResolveTerminates ==
    /\ <>(rpc = "done" /\ queue = <<>>)
    /\ [][processed_names \subseteq processed_names']_vars

\* the traversal ended although two expanded names include each other (or
\* one includes itself)
C4_Witness ==
    /\ rpc = "done"
    /\ queue = <<>>
    /\ \E n, m \in processed_names : n \in FollowedRefs(m) /\ m \in FollowedRefs(n)

\* C5: for a start template whose include-reference list is empty the result
\* is exactly that template's own embedded items, in source order.
C5_NoIncludesOwnItems ==
    (rpc = "done" /\ IncludeRefs(root_template) = <<>>)
        => collected_cfs = EmbeddedItems(root_template)

\* C6: when an iteration finds an included entry, the items it appends are
\* those of the entry's content node, and the include references it enqueues
\* are taken from the same content node.
C6_ItemsOfContentNode ==
    [][ ( /\ rpc = "loop"
          /\ queue # <<>>
          /\ Head(queue) \notin processed_names
          /\ Resolvable(Head(queue)) )
        => LET e == GetAnyTemplateOrInclude(templates, Head(queue))
           IN  /\ collected_cfs' = collected_cfs \o EmbeddedItems(e)
               /\ queue' = Tail(queue) \o IncludeRefs(e) ]_vars

-----------------------------------------------------------------------------
(* Properties of the score inference *)

\* the positions of the table whose key is not "default"
KeyPositions == {i \in 1..Len(trash_scores) : trash_scores[i].key # StrDefault}

\* the positions whose key matches the normalized target name
MatchingPositions ==
    {i \in KeyPositions :
        KeyMatches(trash_scores[i].key, NormalizeProfileName(profile_name))}

\* the first matching position, when there is one
FirstMatch == CHOOSE i \in MatchingPositions : \A j \in MatchingPositions : i <= j

\* C7: when several non-default keys match the target name, the inferred
\* score is the score of the matching key that comes first in the table's
\* stored order.
C7_FirstMatchWins ==
    (ipc = "done" /\ MatchingPositions # {})
        => a_score = trash_scores[FirstMatch].sc

\* two keys match, and the first one's score is returned
C7_Witness ==
    /\ ipc = "done"
    /\ Cardinality(MatchingPositions) >= 2
    /\ a_score = trash_scores[FirstMatch].sc
    /\ \E j \in MatchingPositions : j > FirstMatch /\ trash_scores[j].sc # a_score

\* a key with its spaces and underscores replaced by hyphens
Hyphenate(key) == ReplaceChar(ReplaceChar(key, " ", "-"), "_", "-")

HyphenatedTable(table) ==
    [i \in 1..Len(table) |-> [key |-> Hyphenate(table[i].key), sc |-> table[i].sc]]

\* the rewritten table is still a dict: its keys stay pairwise distinct
HyphenatedIsTable(table) ==
    \A i, j \in 1..Len(table) :
        i # j => Hyphenate(table[i].key) # Hyphenate(table[j].key)

\* C8: keys are normalized like the target name, so a key written with
\* spaces or underscores yields the same inferred score as the same key
\* written with hyphens.
C8_KeysNormalizedLikeTarget ==
    (ipc = "done" /\ HyphenatedIsTable(trash_scores))
        => a_score = Infer(HyphenatedTable(trash_scores), profile_name)

\* the key at position i is not contained in the target, neither as
\* lowercased nor as alias
NotContained(i) ==
    LET p_norm == NormalizeProfileName(profile_name)
        k_norm == Lower(trash_scores[i].key)
        k_alias == ReplaceSub(k_norm, StrFrench, StrFr)
    IN  ~Contains(k_norm, p_norm) /\ ~Contains(k_alias, p_norm)

\* the alias of the key at position i, split on hyphens, without hq and hd
SignificantTokens(i) ==
    FilterOut(Split(ReplaceSub(Lower(trash_scores[i].key), StrFrench, StrFr), "-"),
              {StrHq, StrHd})

AllTokensInTarget(i) ==
    \A t \in Range(SignificantTokens(i)) :
        Contains(t, NormalizeProfileName(profile_name))

\* C9: a key that is not contained in the target name still matches, and
\* (being the first matching key) gives the inferred score, when its alias
\* split on hyphens without hq and hd leaves a non-empty token list whose
\* every token is a substring of the target name; a key that leaves no token
\* does not match by this rule, so a table whose keys are all of that kind
\* and not contained in the target yields the default score.
C9_TokenSubsetMatch ==
    ipc = "done" =>
        /\ \A i \in KeyPositions :
              ( /\ NotContained(i)
                /\ SignificantTokens(i) # <<>>
                /\ AllTokensInTarget(i)
                /\ \A j \in MatchingPositions : i <= j )
              => a_score = trash_scores[i].sc
        /\ ( \A i \in KeyPositions : NotContained(i) /\ SignificantTokens(i) = <<>> )
              => a_score = DefaultScore(trash_scores)

\* a key matched by its tokens only decides the score
C9_Witness ==
    /\ ipc = "done"
    /\ \E i \in KeyPositions :
          /\ NotContained(i)
          /\ SignificantTokens(i) # <<>>
          /\ Len(SignificantTokens(i)) < Len(Split(Lower(trash_scores[i].key), "-"))
          /\ AllTokensInTarget(i)
          /\ a_score = trash_scores[i].sc
          /\ a_score # DefaultScore(trash_scores)

\* the table's "default" entry, or 0 without one
FallbackScore ==
    IF \E i \in 1..Len(trash_scores) : trash_scores[i].key = StrDefault
    THEN trash_scores[CHOOSE i \in 1..Len(trash_scores) :
                         trash_scores[i].key = StrDefault].sc
    ELSE 0

\* C10: when no non-default key matches the target name the inferred score
\* is the table's "default" entry, or 0 without such an entry; the "default"
\* key itself is never matched against the target name, so its score is not
\* returned while another key matches.
C10_FallbackToDefault ==
    ipc = "done" =>
        /\ MatchingPositions = {} => a_score = FallbackScore
        /\ MatchingPositions # {} =>
              \A i \in 1..Len(trash_scores) :
                  trash_scores[i].key = StrDefault => a_score # trash_scores[i].sc

\* no key matches although the table has other keys; the default is returned
C10_Witness ==
    /\ ipc = "done"
    /\ KeyPositions # {}
    /\ MatchingPositions = {}
    /\ \E i \in 1..Len(trash_scores) :
          trash_scores[i].key = StrDefault /\ trash_scores[i].sc # 0
    /\ a_score = FallbackScore

\* the target name contains "default", a later key matches and wins
C10_WitnessDefaultSkipped ==
    /\ ipc = "done"
    /\ trash_scores # <<>>
    /\ trash_scores[1].key = StrDefault
    /\ Contains(StrDefault, NormalizeProfileName(profile_name))
    /\ MatchingPositions # {}
    /\ a_score = trash_scores[FirstMatch].sc

-----------------------------------------------------------------------------
(* Properties of the assignment model *)

\* the target names of an Assignment, one per stored entry
TargetNames(cf) == NamesOf(cf.profile_scores)

\* no name comes twice in a list
NoRepeat(names) ==
    \A i, j \in 1..Len(names) : i # j => names[i] # names[j]

\* C11: after any sequence of baseline loads and upserts, with any list of
\* available target names and any source list, every Assignment of the model
\* has at most one entry per target name.
C11_OneEntryPerTarget ==
    \A i \in 1..Len(active_assignments) :
        NoRepeat(TargetNames(active_assignments[i]))

\* the item ids of the catalog, of the model, and of a source list
CatalogIds == {data[i].trash_id : i \in 1..Len(data)}

ModelIds == {active_assignments[i].trash_id : i \in 1..Len(active_assignments)}

ListedIds(L) == UNION {Range(Get(L[i], "trash_ids", <<>>)) : i \in 1..Len(L)}

\* the ids of the catalog items a source list refers to by display name
NamedIds(L) ==
    {data[k].trash_id : k \in {m \in 1..Len(data) :
        \E i \in 1..Len(L) : data[m].name \in Range(NamesList(L[i]))}}

\* C12: a baseline load fully replaces the model: whatever the model held
\* before, after the load of a list L it holds an Assignment for an item id
\* if and only if the id is in the catalog and L refers to it, by its id or
\* by its display name.  (cf_list is the part of L read so far; the handler
\* may return after any entry.)
C12_LoadReplacesModel ==
    cpc = "loading" =>
        ModelIds = (ListedIds(cf_list) \cup NamedIds(cf_list)) \cap CatalogIds

\* C12 as stated: an Assignment if and only if the id occurs in L and is in
\* the catalog.
C12_OnlyListedIds ==
    cpc = "loading" => ModelIds = ListedIds(cf_list) \cap CatalogIds

\* a load whose list has an unknown id and a known one: one Assignment only
C12_Witness ==
    /\ cpc = "loading"
    /\ "zz" \in ListedIds(cf_list)
    /\ ModelIds = {"b"}

\* the entry the loop of the baseline load has read last
LastEntry == cf_list[Len(cf_list)]

\* the score the specification gives a target of a source list for an item: the
\* explicit score when the list gives one, the inferred score otherwise
ExpectedScore(assign, item) ==
    IF "score" \in DOMAIN assign THEN assign.score
    ELSE Infer(item.trash_scores, assign.name)

\* C13: for every item and every target named in the source list, the
\* resulting Assignment's score for that target is the explicit score when the
\* list gives one and infer(item's score table, target name) otherwise; no
\* target absent from the source list is populated.
C13_ExplicitElseInferred ==
    (cpc = "loading" /\ cf_list # <<>>) =>
        LET targets == Get(LastEntry, "assign_scores_to", <<>>)
            ids     == ListedIds(<<LastEntry>>) \cup NamedIds(<<LastEntry>>)
        IN  \A i \in 1..Len(active_assignments) :
                LET cf == active_assignments[i]
                IN  cf.trash_id \in ids =>
                      /\ \A k \in 1..Len(targets) :
                            <<targets[k].name,
                              ExpectedScore(targets[k], CfData(cf.trash_id))>>
                                \in PairsOf(cf)
                      /\ \A k \in 1..Len(cf.profile_scores) :
                            \E m \in 1..Len(targets) :
                               targets[m].name = cf.profile_scores[k].name

\* an entry gives one target without a score and one with the explicit score
\* 0: the first is inferred from the item's table, the second is kept
C13_Witness ==
    /\ cpc = "loading"
    /\ cf_list # <<>>
    /\ \E k \in 1..Len(Get(LastEntry, "assign_scores_to", <<>>)) :
          "score" \notin DOMAIN LastEntry.assign_scores_to[k]
    /\ \E i \in 1..Len(active_assignments) :
          /\ active_assignments[i].trash_id = "b"
          /\ PairsOf(active_assignments[i]) = {<<NameVF, 10>>, <<NameVO, 0>>}
    /\ \E i \in 1..Len(active_assignments) :
          /\ active_assignments[i].trash_id = "a"
          /\ <<NameVF, 50>> \in PairsOf(active_assignments[i])

\* the entries of a source list that refer to an item id, by id or by name
Occurs(L, tid) ==
    {i \in 1..Len(L) : tid \in ListedIds(<<L[i]>>) \cup NamedIds(<<L[i]>>)}

LastOccurrence(L, tid) ==
    CHOOSE i \in Occurs(L, tid) : \A j \in Occurs(L, tid) : j <= i

\* the (targetName, score) pairs an entry gives an item
EntryPairs(entry, item) ==
    LET targets == Get(entry, "assign_scores_to", <<>>)
    IN  {<<targets[k].name, ExpectedScore(targets[k], item)>> :
            k \in 1..Len(targets)}

\* C14: when the same item id occurs more than once in the list given to the
\* baseline load, the model holds exactly one Assignment for that id and its
\* target scores are those of the last occurrence in the list.
C14_LastOccurrenceWins ==
    cpc = "loading" =>
        \A tid \in CatalogIds :
            Cardinality(Occurs(cf_list, tid)) > 1 =>
                /\ Cardinality({i \in 1..Len(active_assignments) :
                                   active_assignments[i].trash_id = tid}) = 1
                /\ \A i \in 1..Len(active_assignments) :
                      active_assignments[i].trash_id = tid =>
                          PairsOf(active_assignments[i]) =
                              EntryPairs(cf_list[LastOccurrence(cf_list, tid)],
                                         CfData(tid))

\* item a occurs in two entries that give it different target scores
C14_Witness ==
    /\ cpc = "loading"
    /\ Len(cf_list) = 2
    /\ Occurs(cf_list, "a") = {1, 2}
    /\ EntryPairs(cf_list[1], CfData("a")) # EntryPairs(cf_list[2], CfData("a"))
    /\ EntryPairs(cf_list[1], CfData("a")) # {}
    /\ \E i \in 1..Len(active_assignments) :
          /\ active_assignments[i].trash_id = "a"
          /\ PairsOf(active_assignments[i]) = EntryPairs(cf_list[2], CfData("a"))

-----------------------------------------------------------------------------
(* Order and repeatability of the output compiler *)

\* the position of an item id in the Assignment list
PosOf(tid) == KeyIndex(active_assignments, tid)

\* C15: output blocks appear in the order in which their signatures first
\* occur in the Assignment list (a block is opened by the first Assignment
\* that has its signature, so blocks are ordered as their first ids are in
\* the list), and the item ids inside a block appear in Assignment-list order.
C15_BlocksInFirstSeenOrder ==
    cpc = "generated" =>
        /\ \A k, l \in 1..Len(custom_formats_list) :
              k < l => PosOf(custom_formats_list[k].trash_ids[1])
                         < PosOf(custom_formats_list[l].trash_ids[1])
        /\ \A k \in 1..Len(custom_formats_list) :
              LET ids == custom_formats_list[k].trash_ids
              IN  \A m, n \in 1..Len(ids) : m < n => PosOf(ids[m]) < PosOf(ids[n])

\* the Assignment of b was stored before the Assignment of a, and each has a
\* block of its own: the block of b comes first
C15_Witness ==
    /\ cpc = "generated"
    /\ Len(active_assignments) = 2
    /\ active_assignments[1].trash_id = "b"
    /\ Len(custom_formats_list) = 2
    /\ custom_formats_list[1].trash_ids = <<"b">>
    /\ custom_formats_list[2].trash_ids = <<"a">>

-----------------------------------------------------------------------------
(* Properties of the profile renderer *)

\* the profiles of the instance whose activation flag is set, in order
RECURSIVE ActiveProfiles(_)
ActiveProfiles(profs) ==
    IF profs = <<>> THEN <<>>
    ELSE IF Head(profs).active
         THEN <<Head(profs)>> \o ActiveProfiles(Tail(profs))
         ELSE ActiveProfiles(Tail(profs))

\* the names of the rendered profile blocks, in order
BlockNames == [k \in 1..Len(quality_profiles) |-> quality_profiles[k].name]

\* C17: the profile renderer emits exactly one block for each Profile whose
\* activation flag is set, in insertion order, and no block for a Profile
\* whose activation flag is not set.
C17_OnlyActiveProfilesRendered ==
    cpc = "generated" =>
        BlockNames = NamesOf(ActiveProfiles(custom_profiles))

\* the rendering the specification gives a ProfileItem
ExpectedItem(item) ==
    IF Len(item.qualities) > 0
    THEN [name |-> item.name, qualities |-> item.qualities]
    ELSE Scalar(item.name)

-----------------------------------------------------------------------------
(* Properties of the catalog load *)

\* C19: when a catalog load reports failure, no partial catalog is exposed:
\* the item data, the id index and the template data visible through the
\* lookups are all exactly what they were before the call.
C19_FailedLoadLeavesCatalog ==
    (lpc = "returned" /\ ~load_result) => Catalog = catalog_before

\* C20: a reload replaces the catalog wholesale: after any sequence of loads,
\* lookup-by-id returns an item only if that item is present in the most
\* recently loaded catalog data; no index entry of an earlier load survives.
C20_IndexOnlyLatestLoad ==
    (lpc = "returned" /\ load_result) =>
        \A tid \in DOMAIN cf_by_id :
            \E i \in 1..Len(custom_formats) :
                \E k \in 1..Len(custom_formats[i].formats) :
                    WithApp(custom_formats[i].formats[k], custom_formats[i].app)
                        = cf_by_id[tid]

\* the catalog the files on disk describe, when both can be read in full:
\* the item data, an index of exactly its entries, and the template data
FilesReadable ==
    /\ cf_file.kind = "json"
    /\ tpl_file.kind = "json"
    /\ ~IndexCustomFormats(<<>>, cf_file.doc).raised

CatalogOfFiles ==
    <<cf_file.doc, IndexCustomFormats(<<>>, cf_file.doc).index, tpl_file.doc>>

\* C21: a catalog reload is one atomic swap: what a lookup or a resolution
\* observes once the handler that reloads has returned is either the complete
\* old catalog or the complete new one, never new item data together with old
\* template data or a partly built id index.
C21_ReloadIsAtomicSwap ==
    lpc = "returned" =>
        \/ Catalog = catalog_before
        \/ FilesReadable /\ Catalog = CatalogOfFiles

-----------------------------------------------------------------------------
(* Properties of the profile list *)

\* C22: after any sequence of add-profile, edit-profile, delete-profile and
\* sync-profiles operations on an instance, no two Profiles of that instance
\* have the same name.
C22_ProfileNamesUnique ==
    \A i, j \in 1..Len(custom_profiles) :
        custom_profiles[i].name = custom_profiles[j].name => i = j

-----------------------------------------------------------------------------
(* Settings of a rendered profile *)

\* C26: each rendered profile block carries the Profile's own settings: its
\* sort order, its upgrade policy (allowed, until-quality, until-score), its
\* minimum score and its reset-unmatched flag equal the values stored in the
\* Profile.  (The k-th block renders the k-th profile of the instance.)
C26_BlockCarriesProfileSettings ==
    cpc = "generated" =>
        \A k \in 1..Len(quality_profiles) :
            LET block == quality_profiles[k]
                qp    == custom_profiles[k]
            IN  /\ block.quality_sort = qp.quality_sort
                /\ block.upgrade.allowed = qp.upgrade_allowed
                /\ block.upgrade.until_quality = qp.upgrade_until
                /\ block.upgrade.until_score = qp.until_score
                /\ block.min_format_score = qp.min_format_score
                /\ block.reset_unmatched_scores.enabled = qp.reset_unmatched_scores

-----------------------------------------------------------------------------
(* Properties of the template selection *)

\* the ids an embedded entry lists
RECURSIVE IdsOfEntries(_)
IdsOfEntries(entries) ==
    IF entries = <<>> THEN {}
    ELSE Range(Get(Head(entries), "trash_ids", <<>>)) \cup IdsOfEntries(Tail(entries))

\* C23: when a template (not the Custom/Manual entry) is selected for an
\* instance, the assignment model afterwards holds a baseline Assignment for
\* every embedded item returned by resolve for that template whose id is in
\* the catalog; the selection does not end with an empty model when the
\* template has such items.
C23_SelectionSeedsModel ==
    spc = "returned" =>
        \A tid \in IdsOfEntries(collected_cfs) :
            CfData(tid) # NoItem => KeyIndex(active_assignments, tid) # 0

\* C24: resolve and loadBaseline only read the catalog: after any sequence of
\* template selections and baseline loads, every template, include and
\* embedded entry (its id list included) equals the data as loaded.
C24_CatalogOnlyRead ==
    templates = templates_loaded

-----------------------------------------------------------------------------
(* Frame of the assignment model's update *)

\* model[tid], a marker when tid has no Assignment
AssignmentOf(model, tid) ==
    IF KeyIndex(model, tid) = 0 THEN NoItem ELSE model[KeyIndex(model, tid)]

\* the item ids that have an Assignment in the model
KeysOf(model) == {model[i].trash_id : i \in 1..Len(model)}

\* what an upsert of item tid with the target scores S leaves behind
UpsertEffect(tid, S) ==
    /\ IF S = <<>>
       THEN AssignmentOf(active_assignments', tid) = NoItem
       ELSE /\ AssignmentOf(active_assignments', tid) # NoItem
            /\ AssignmentOf(active_assignments', tid).profile_scores = S
    /\ \A other \in KeysOf(active_assignments) \cup KeysOf(active_assignments') :
          other # tid =>
             AssignmentOf(active_assignments', other)
                = AssignmentOf(active_assignments, other)

\* C25: upsert replaces an item's Assignment entirely: after an upsert for
\* item i with target scores S, i's Assignment holds exactly the pairs of S
\* with nothing left from its previous Assignment (and i is removed from the
\* model when S is empty), and the Assignment of every other item is
\* unchanged.
C25_UpsertReplacesEntirely ==
    [][\A tid \in {"a", "b"} : \A rows \in TableRows(Len(profiles)) :
          UpdateModel(tid, rows) => UpsertEffect(tid, CheckedRows(profiles, rows))]_vars

\* item a was given the single pair (VO, 100), a value only the spin box
\* sets, while item b keeps an Assignment of its own
C25_Witness ==
    /\ cpc = "edit"
    /\ AssignmentOf(active_assignments, "a") # NoItem
    /\ AssignmentOf(active_assignments, "a").profile_scores =
          <<[name |-> NameVO, score |-> 100]>>
    /\ AssignmentOf(active_assignments, "b") # NoItem

-----------------------------------------------------------------------------
(* The grouper as a partition *)

\* the places (block, position) of the output where an id is listed
PlacesOf(tid) ==
    UNION { { <<k, p>> : p \in { q \in 1..Len(custom_formats_list[k].trash_ids) :
                                    custom_formats_list[k].trash_ids[q] = tid } } :
            k \in 1..Len(custom_formats_list) }

\* the number of ids over all blocks
RECURSIVE IdCount(_)
IdCount(blocks) ==
    IF blocks = <<>> THEN 0
    ELSE Len(Head(blocks).trash_ids) + IdCount(Tail(blocks))

\* C27: the grouper partitions the model: every Assignment's item id appears
\* in exactly one output block and exactly once in it, no output block lists
\* an id that has no Assignment in the model, and the number of ids over all
\* blocks equals the number of Assignments.
C27_GrouperPartitionsModel ==
    cpc \in {"generated", "regenerated"} =>
        /\ \A tid \in KeysOf(active_assignments) : Cardinality(PlacesOf(tid)) = 1
        /\ \A k \in 1..Len(custom_formats_list) :
              Range(custom_formats_list[k].trash_ids) \subseteq KeysOf(active_assignments)
        /\ IdCount(custom_formats_list) = Len(active_assignments)

\* two Assignments with the same key share a block, or stand in two blocks
C27_Witness ==
    /\ cpc = "generated"
    /\ Len(active_assignments) = 2
    /\ Len(custom_formats_list) = 1
    /\ Len(custom_formats_list[1].trash_ids) = 2

-----------------------------------------------------------------------------
(* Properties of the generated document *)

\* C28: after any sequence of add-instance, rename-instance and
\* delete-instance operations, the generated document has one entry per
\* instance: the number of entries in an application's output section equals
\* the number of instances of that application, and no instance's
\* configuration is replaced by another's.
C28_OneEntryPerInstance ==
    yaml_doc # NoItem =>
        \A app \in {"radarr", "sonarr"} :
            LET instances == InstancesOf(tabs, app)
            IN  instances # <<>> =>
                  /\ app \in DOMAIN yaml_doc
                  /\ Len(yaml_doc[app]) = Len(instances)
                  /\ \A i \in 1..Len(instances) :
                        \E e \in 1..Len(yaml_doc[app]) :
                            /\ yaml_doc[app][e].key = instances[i].name
                            /\ yaml_doc[app][e].value = InstanceConfigOf(instances[i])

-----------------------------------------------------------------------------
(* Properties of the sync worker *)

IsTerminal(sig) == sig \in {"finished", "error"}

\* the position of the first signal sig among the emitted ones, 0 without
FirstEmitted(sig) ==
    IF \E i \in 1..Len(emitted) : emitted[i] = sig
    THEN CHOOSE i \in 1..Len(emitted) :
            /\ emitted[i] = sig
            /\ \A j \in 1..(i - 1) : emitted[j] # sig
    ELSE 0

Succeeded(what) ==
    \E i \in 1..Len(extractions) :
        extractions[i].what = what /\ extractions[i].ok

Failed(what) ==
    \E i \in 1..Len(extractions) :
        extractions[i].what = what /\ ~extractions[i].ok

Started(what) ==
    \E i \in 1..Len(extractions) : extractions[i].what = what

\* what holds at every moment of a run
RunSafe ==
    /\ Len(SelectSeq(emitted, IsTerminal)) <= 1
    /\ wpc = "done" =>
          /\ Len(SelectSeq(emitted, IsTerminal)) = 1
          /\ IsTerminal(emitted[Len(emitted)])
    /\ FirstEmitted("finished") # 0 =>
          /\ Succeeded("templates")
          /\ Succeeded("custom_formats")
          /\ FirstEmitted("data_ready") # 0
          /\ FirstEmitted("data_ready") < FirstEmitted("finished")
    /\ Failed("templates") => ~Started("custom_formats")

C29_WitnessError ==
    /\ wpc = "done"
    /\ emitted[Len(emitted)] = "error"
    /\ Succeeded("templates")

-----------------------------------------------------------------------------
(* The exact-token rule of the score inference *)

\* the heuristic with the exact-token rule removed
KeyMatchesNoSpecial(key, p_norm) ==
    \/ RuleContainment(key, p_norm)
    \/ RuleTokens(key, p_norm)

RECURSIVE ScanKeysNoSpecial(_, _, _, _)
ScanKeysNoSpecial(table, i, p_norm, best_match_score) ==
    IF i > Len(table) THEN best_match_score
    ELSE IF table[i].key = StrDefault
         THEN ScanKeysNoSpecial(table, i + 1, p_norm, best_match_score)
         ELSE IF KeyMatchesNoSpecial(table[i].key, p_norm)
              THEN table[i].sc
              ELSE ScanKeysNoSpecial(table, i + 1, p_norm, best_match_score)

InferNoSpecial(table, name) ==
    IF table = <<>> THEN DefaultScore(table)
    ELSE ScanKeysNoSpecial(table, 1, NormalizeProfileName(name), DefaultScore(table))

\* C30: the exact-token rule for the aliases vostfr, vf and vo never decides
\* the result: for every score table and target name, infer returns the same
\* score as the same heuristic with that rule removed, because any key it
\* would accept is already accepted by the substring rule.
C30_ExactTokenRuleRedundant ==
    ipc = "done" =>
        /\ a_score = InferNoSpecial(trash_scores, profile_name)
        /\ \A i \in 1..Len(trash_scores) :
              RuleSpecial(trash_scores[i].key, NormalizeProfileName(profile_name))
                 => RuleContainment(trash_scores[i].key,
                                    NormalizeProfileName(profile_name))

\* the key vf is an exact token of the target's name, it is the first key
\* that matches, and its score is the result
C30_Witness ==
    /\ ipc = "done"
    /\ \E i \in 1..Len(trash_scores) :
          /\ trash_scores[i].key = StrVf
          /\ RuleSpecial(StrVf, NormalizeProfileName(profile_name))
          /\ \A j \in 1..(i - 1) :
                ~KeyMatches(trash_scores[j].key, NormalizeProfileName(profile_name))
          /\ a_score = trash_scores[i].sc

====
